---------------------------- MODULE Spec2Model ----------------------------
(***************************************************************************)
(* Verification model of the SEO content engine of ai-blog-gen:            *)
(*   services/seoOptimizationService.js  (planner, assembler, meta          *)
(*                                        optimizer, RankMath scorer)       *)
(*   services/geminiService.js           (text-generation gateway)          *)
(*                                                                         *)
(* Strings are modelled concretely at two levels.  A token is a sequence   *)
(* of one-character strings; a text is a sequence of runs [tok, n]: the     *)
(* token's characters repeated n times, all tokens of a text joined by one  *)
(* space.  Run lengths let a text reach the scorer's thresholds (1102      *)
(* words, 140..160 characters) without enumerating every character.        *)
(***************************************************************************)
EXTENDS Integers, Sequences, FiniteSets, TLC

VARIABLES
    keyword,         \* scorer input: the focus keyword (sequence of characters)
    contentBlocks,   \* scorer input: sequence of [type, content] blocks
    metaData,        \* scorer input: [h1, metaDescription, slug]
    validation,      \* result of validateSEOCompliance (lines 363-514)
    validation2,     \* result of the second revision (lines 780-880)
    prevValidation,  \* the result before the last edit of metaData
    spc,             \* position of the scorer scenario
    targetWordCount, \* planner input
    structure,       \* result of generateKeywordOptimizedStructure (120-173)
    structure2,      \* result of the second revision (660-701)
    ppc,             \* position of the planner scenario
    companyName,     \* companyContext.name
    apiKey,          \* whether GEMINI_API_KEY is configured
    pc,              \* position of generateSEOOptimizedContent
    sectionIndex,    \* the section the assembler's loop is at
    call,            \* the generateContent call in flight
    callLog,         \* the calls started and ended, in order
    error,           \* the function whose exception ended the run
    draft,           \* the Draft document of the routes (blogRoutes.js)
    reply,           \* the response of the last request to a route
    requests,        \* the requests served so far
    slugs,           \* the slugs the two generateSEOSlug have returned
    fallbackTexts,   \* the fallback texts returned for one prompt, in order
    deployment,      \* the last run of deployToWordPress (wordpressService.js)
    saving           \* the PUT /draft/:draftId/save request in flight

scorerVars == <<keyword, contentBlocks, metaData, validation, validation2,
                prevValidation, spc>>

plannerVars == <<targetWordCount, structure, structure2, ppc>>

pipelineVars == <<companyName, apiKey, pc, sectionIndex, call, callLog, error>>

draftVars == <<draft, reply, requests>>

serviceVars == <<slugs, fallbackTexts, deployment, saving>>

vars == <<scorerVars, plannerVars, pipelineVars, draftVars, serviceVars>>

-----------------------------------------------------------------------------
(* Characters and character sequences                                      *)

\* String.prototype.toLowerCase on one character of the modelled alphabet
Lower(c) ==
    CASE c = "S" -> "s"
      [] c = "O" -> "o"
      [] c = "X" -> "x"
      [] c = "P" -> "p"
      [] c = "I" -> "i"
      [] c = "B" -> "b"
      [] OTHER -> c

\* String.prototype.toUpperCase on one character of the modelled alphabet
Upper(c) ==
    CASE c = "s" -> "S"
      [] c = "o" -> "O"
      [] c = "x" -> "X"
      [] c = "p" -> "P"
      [] c = "i" -> "I"
      [] c = "b" -> "B"
      [] OTHER -> c

\* String.prototype.toLowerCase
RECURSIVE LowerSeq(_)
LowerSeq(s) == IF s = <<>> THEN <<>> ELSE <<Lower(Head(s))>> \o LowerSeq(Tail(s))

\* String.prototype.toUpperCase
RECURSIVE UpperSeq(_)
UpperSeq(s) == IF s = <<>> THEN <<>> ELSE <<Upper(Head(s))>> \o UpperSeq(Tail(s))

\* \s of a JavaScript regular expression, on the modelled alphabet
IsSpace(c) == c = " "

\* does needle occur in hay at index i (1-based)
OccursAt(hay, needle, i) ==
    /\ i + Len(needle) - 1 <= Len(hay)
    /\ \A k \in 1..Len(needle) : hay[i + k - 1] = needle[k]

\* String.prototype.includes
Includes(hay, needle) ==
    \E i \in 1..(Len(hay) + 1) : OccursAt(hay, needle, i)

\* content.match(/needle/g).length for an escaped (literal) needle:
\* left-to-right, non-overlapping occurrences, counted from index i
RECURSIVE CountFrom(_, _, _)
CountFrom(hay, needle, i) ==
    IF i + Len(needle) - 1 > Len(hay) THEN 0
    ELSE IF OccursAt(hay, needle, i)
         THEN 1 + CountFrom(hay, needle, i + Len(needle))
         ELSE CountFrom(hay, needle, i + 1)

\* number of ' ' characters of a character sequence
RECURSIVE SpacesIn(_)
SpacesIn(s) ==
    IF s = <<>> THEN 0
    ELSE (IF Head(s) = " " THEN 1 ELSE 0) + SpacesIn(Tail(s))

\* s.split(' ').slice(0, m).join(' '): the prefix of s before its m-th space
RECURSIVE TakePieces(_, _)
TakePieces(s, m) ==
    IF m <= 0 \/ s = <<>> THEN <<>>
    ELSE IF Head(s) = " "
         THEN (IF m = 1 THEN <<>> ELSE <<" ">> \o TakePieces(Tail(s), m - 1))
         ELSE <<Head(s)>> \o TakePieces(Tail(s), m)

\* keyword.toLowerCase().replace(/\s+/g, '-')
RECURSIVE HyphenateSpaces(_)
HyphenateSpaces(s) ==
    IF s = <<>> THEN <<>>
    ELSE IF IsSpace(Head(s))
         THEN IF Len(s) > 1 /\ IsSpace(s[2])
              THEN HyphenateSpaces(Tail(s))
              ELSE <<"-">> \o HyphenateSpaces(Tail(s))
         ELSE <<Head(s)>> \o HyphenateSpaces(Tail(s))


-----------------------------------------------------------------------------
(* new RegExp(pattern) with the keyword interpolated unescaped             *)

RECURSIVE ParenDepth(_, _)
ParenDepth(s, i) ==
    IF i = 0 THEN 0
    ELSE ParenDepth(s, i - 1)
         + (IF s[i] = "(" THEN 1 ELSE IF s[i] = ")" THEN -1 ELSE 0)

\* whether `new RegExp(prefix + kw + suffix)` compiles, for the prefixes of
\* lines 462 and 480 (both end in a quantifier, `.*` and `[^"]*`): groups
\* must balance and a `+` must follow an atom.  A SyntaxError otherwise.
RegExpCompiles(kw) ==
    /\ \A i \in 1..Len(kw) : ParenDepth(kw, i) >= 0
    /\ ParenDepth(kw, Len(kw)) = 0
    /\ \A i \in 1..Len(kw) :
          kw[i] = "+" => (i > 1 /\ kw[i - 1] \notin {"+", "("})

\* the atoms of a group-free pattern: [c |-> character, plus |-> quantified]
RECURSIVE PatternAtoms(_)
PatternAtoms(kw) ==
    IF kw = <<>> THEN <<>>
    ELSE IF Len(kw) > 1 /\ kw[2] = "+"
         THEN <<[c |-> kw[1], plus |-> TRUE]>> \o PatternAtoms(SubSeq(kw, 3, Len(kw)))
         ELSE <<[c |-> kw[1], plus |-> FALSE]>> \o PatternAtoms(Tail(kw))

\* the atoms match txt from index j on (flag i: case-insensitive)
RECURSIVE MatchFrom(_, _, _)
MatchFrom(atoms, txt, j) ==
    IF atoms = <<>> THEN TRUE
    ELSE LET a == Head(atoms) IN
         IF a.plus
         THEN \E k \in 1..(Len(txt) - j + 1) :
                 /\ \A m \in j..(j + k - 1) : Lower(txt[m]) = Lower(a.c)
                 /\ MatchFrom(Tail(atoms), txt, j + k)
         ELSE /\ j <= Len(txt)
              /\ Lower(txt[j]) = Lower(a.c)
              /\ MatchFrom(Tail(atoms), txt, j + 1)

\* txt.match(new RegExp(`.*${kw}.*`, 'gi')) finds something
RegExpFinds(kw, txt) ==
    \E j \in 1..(Len(txt) + 1) : MatchFrom(PatternAtoms(kw), txt, j)

-----------------------------------------------------------------------------
(* Tokens and texts                                                        *)

\* generateSEOSlug (lines 528-536)
SlugAlphabet ==
    { "a", "b", "c", "d", "e", "f", "g", "h", "i", "j", "k", "l", "m", "n",
      "o", "p", "q", "r", "s", "t", "u", "v", "w", "x", "y", "z",
      "0", "1", "2", "3", "4", "5", "6", "7", "8", "9", " ", "-" }

MaxSlugLength == 50

\* .replace(/[^a-z0-9\s-]/g, '')
RECURSIVE StripNonSlug(_)
StripNonSlug(s) ==
    IF s = <<>> THEN <<>>
    ELSE (IF Head(s) \in SlugAlphabet THEN <<Head(s)>> ELSE <<>>)
            \o StripNonSlug(Tail(s))

\* .replace(/\s+/g, '-').replace(/-+/g, '-'): every run of spaces and
\* hyphens that holds a space or more than one hyphen becomes one hyphen
RECURSIVE CollapseHyphens(_, _)
CollapseHyphens(s, inRun) ==
    IF s = <<>> THEN <<>>
    ELSE IF Head(s) \in {" ", "-"}
         THEN (IF inRun THEN <<>> ELSE <<"-">>) \o CollapseHyphens(Tail(s), TRUE)
         ELSE <<Head(s)>> \o CollapseHyphens(Tail(s), FALSE)

\* .replace(/^-|-$/g, '')
TrimHyphens(s) ==
    LET a == IF s # <<>> /\ Head(s) = "-" THEN Tail(s) ELSE s
    IN IF a # <<>> /\ a[Len(a)] = "-" THEN SubSeq(a, 1, Len(a) - 1) ELSE a

\* a chain that keeps the characters that are no letter, digit or hyphen
generateSEOSlug_keepsPunctuation(text) ==
    LET t == TrimHyphens(CollapseHyphens(LowerSeq(text), FALSE))
    IN SubSeq(t, 1, IF Len(t) < MaxSlugLength THEN Len(t) ELSE MaxSlugLength)

generateSEOSlug(text) ==
    LET t == TrimHyphens(CollapseHyphens(StripNonSlug(LowerSeq(text)), FALSE))
    IN SubSeq(t, 1, IF Len(t) < MaxSlugLength THEN Len(t) ELSE MaxSlugLength)

\* the company of the default company context (blogRoutes.js line 1046)
WattMonk == <<"w", "m">>

\* keyword.charAt(0).toUpperCase() + keyword.slice(1)
Capitalize(s) == IF s = <<>> THEN <<>> ELSE <<Upper(Head(s))>> \o Tail(s)

\* Words of generated prose are known by their class only: a filler word
\* ("w", seven characters, the average word of the fallback templates), a
\* word that ends a sentence ("dot"), the company name ("name"), the words
\* the gateway's link patterns look for ("panel", "inst", "energy"), the
\* link addresses ("nrel", "seia", "doe", "wmlink") and the words the
\* conclusion's call to action is detected by ("contact", "visit").
Tokens ==
    {"kw", "KW", "kwh", "kwc", "kwq", "kwl", "kwlc", "kwlcap", "kwlccap",
     "kwdots",
     "x", "X", "xx", "h2kw", "a", "alt", "empty", "slug",
     "w", "dot", "name", "panel", "inst", "energy",
     "nrel", "seia", "doe", "wmlink", "contact", "visit"}

\* the characters of a token, for the keyword kw
TokText(tok, kw) ==
    CASE tok = "kw"      -> kw
      [] tok = "KW"      -> UpperSeq(kw)
      [] tok = "kwh"     -> HyphenateSpaces(LowerSeq(kw))
      [] tok = "kwc"     -> kw \o <<":">>
      [] tok = "kwq"     -> kw \o <<"?">>
      [] tok = "kwdots"  -> kw \o <<".", ".", ".">>
      [] tok = "kwl"     -> LowerSeq(kw)
      [] tok = "kwlc"    -> LowerSeq(kw) \o <<":">>
      [] tok = "kwlcap"  -> Capitalize(LowerSeq(kw))
      [] tok = "kwlccap" -> Capitalize(LowerSeq(kw)) \o <<":">>
      [] tok = "slug"    -> generateSEOSlug(kw)
      [] tok = "x"       -> <<"x">>
      [] tok = "X"       -> <<"X">>
      [] tok = "xx"      -> <<"x", "x">>
      [] tok = "h2kw"    -> <<"<", "h", "2", ">">> \o kw \o <<"<", "/", "h", "2", ">">>
      [] tok = "a"       -> <<"<", "a", " ", "h", "r", "e", "f", ">">>
      [] tok = "alt"     -> <<"a", "l", "t", "=", "\"">> \o kw \o <<"\"">>
      [] tok = "empty"   -> <<>>
      [] tok = "w"       -> <<"x", "x", "x", "x", "x", "x", "x">>
      [] tok = "dot"     -> <<"x", "x", "x", "x", "x", "x", ".">>
      [] tok = "name"    -> WattMonk
      [] tok = "panel"   -> <<"l", "a", "r", " ", "p", "a", "n", "e", "l">>
      [] tok = "inst"    -> <<"i", "n", "t", "a", "l", "l">>
      [] tok = "energy"  -> <<"e", "n", "e", "r", "g", "y">>
      [] tok = "nrel"    -> <<"n", "r", "e", "l", ".", "g", "v">>
      [] tok = "seia"    -> <<"e", "i", "a", ".", "r", "g">>
      [] tok = "doe"     -> <<"e", "n", "e", "r", "g", "y", ".", "g", "v">>
      [] tok = "wmlink"  -> WattMonk \o <<".", "c", "m">>
      [] tok = "contact" -> <<"c", "n", "t", "a", "c", "t">>
      [] tok = "visit"   -> <<"v", "i", "i", "t">>

R(tok, n) == [tok |-> tok, n |-> n]

\* text.length
\* the sums over a text are taken by halves, runs lo..hi at a time
RECURSIVE RunCharsIn(_, _, _, _)
RunCharsIn(runs, kw, lo, hi) ==
    IF lo > hi THEN 0
    ELSE IF lo = hi THEN runs[lo].n * (Len(TokText(runs[lo].tok, kw)) + 1)
    ELSE RunCharsIn(runs, kw, lo, (lo + hi) \div 2)
            + RunCharsIn(runs, kw, (lo + hi) \div 2 + 1, hi)

RunChars(runs, kw) == RunCharsIn(runs, kw, 1, Len(runs))

TextLen(runs, kw) == IF runs = <<>> THEN 0 ELSE RunChars(runs, kw) - 1

\* text.split(' ').length
RECURSIVE RunPiecesIn(_, _, _, _)
RunPiecesIn(runs, kw, lo, hi) ==
    IF lo > hi THEN 0
    ELSE IF lo = hi THEN runs[lo].n * (SpacesIn(TokText(runs[lo].tok, kw)) + 1)
    ELSE RunPiecesIn(runs, kw, lo, (lo + hi) \div 2)
            + RunPiecesIn(runs, kw, (lo + hi) \div 2 + 1, hi)

RunPieces(runs, kw) == RunPiecesIn(runs, kw, 1, Len(runs))

SplitLength(runs, kw) == IF runs = <<>> THEN 1 ELSE RunPieces(runs, kw)

\* text.toLowerCase().includes(keyword.toLowerCase())
TextIncludesCI(runs, kw) ==
    \E i \in 1..Len(runs) :
        Includes(LowerSeq(TokText(runs[i].tok, kw)), LowerSeq(kw))

\* text.includes(needle), case-sensitive
TextIncludes(runs, needle, kw) ==
    \E i \in 1..Len(runs) : Includes(TokText(runs[i].tok, kw), needle)

\* number of tokens tok in the text
RECURSIVE TokCountIn(_, _, _, _)
TokCountIn(runs, tok, lo, hi) ==
    IF lo > hi THEN 0
    ELSE IF lo = hi THEN (IF runs[lo].tok = tok THEN runs[lo].n ELSE 0)
    ELSE TokCountIn(runs, tok, lo, (lo + hi) \div 2)
            + TokCountIn(runs, tok, (lo + hi) \div 2 + 1, hi)

TokCount(runs, tok) == TokCountIn(runs, tok, 1, Len(runs))

-----------------------------------------------------------------------------
(* SEO Compliance Scorer: validateSEOCompliance                            *)

MinWords == 1102

MaxTitleLength == 60

MinDescriptionLength == 140

MaxDescriptionLength == 160

FirstWords == 100

MinLinks == 2

\* allContent: the contents of the paragraph blocks joined by ' ' (an empty
\* content still contributes its separator, hence an empty token)
RECURSIVE AllContent(_)
AllContent(blocks) ==
    IF blocks = <<>> THEN <<>>
    ELSE (IF Head(blocks).type = "paragraph"
          THEN (IF Head(blocks).content = <<>> THEN <<R("empty", 1)>>
                ELSE Head(blocks).content)
          ELSE <<>>) \o AllContent(Tail(blocks))

\* countKeywordOccurrences: the keyword is escaped, so it is counted as a
\* literal, case-insensitively, left to right without overlap
RECURSIVE OccurrencesIn(_, _, _, _)
OccurrencesIn(content, kw, lo, hi) ==
    IF lo > hi THEN 0
    ELSE IF lo = hi
         THEN content[lo].n
                 * CountFrom(LowerSeq(TokText(content[lo].tok, kw)), LowerSeq(kw), 1)
    ELSE OccurrencesIn(content, kw, lo, (lo + hi) \div 2)
            + OccurrencesIn(content, kw, (lo + hi) \div 2 + 1, hi)

countKeywordOccurrences(content, kw) == OccurrencesIn(content, kw, 1, Len(content))

\* allContent.split(' ').slice(0, 100).join(' ').toLowerCase().includes(kw):
\* budget is the number of space-delimited pieces still inside the slice
RECURSIVE FirstWordsInclude(_, _, _)
FirstWordsInclude(runs, kw, budget) ==
    IF runs = <<>> \/ budget <= 0 THEN FALSE
    ELSE LET t == TokText(Head(runs).tok, kw) IN
         \/ Includes(LowerSeq(TakePieces(t, budget)), LowerSeq(kw))
         \/ FirstWordsInclude(Tail(runs), kw,
                              budget - Head(runs).n * (SpacesIn(t) + 1))

\* allContent.substring(0, Math.floor(allContent.length * 0.1)) includes the
\* keyword: budget is the number of characters still inside the prefix
RECURSIVE PrefixIncludes(_, _, _)
PrefixIncludes(runs, kw, budget) ==
    IF runs = <<>> \/ budget <= 0 THEN FALSE
    ELSE LET t == TokText(Head(runs).tok, kw)
             m == IF budget < Len(t) THEN budget ELSE Len(t)
         IN \/ Includes(LowerSeq(SubSeq(t, 1, m)), LowerSeq(kw))
            \/ PrefixIncludes(Tail(runs), kw, budget - Head(runs).n * (Len(t) + 1))

\* the checks in the order the code runs them (Check 1 .. Check 13)
RuleOrder ==
    << "keywordInTitle", "keywordInMetaDescription", "keywordInURL",
       "keywordInFirst100Words", "keywordInContent", "contentLength",
       "titleReadability", "contentReadability", "metaDescriptionLength",
       "keywordDensity", "keywordInH2", "internalLinks", "keywordInImageAlt" >>

\* the second revision runs Check 1 .. Check 10, Check 4 on the first 10%
RuleOrder2 ==
    << "keywordInTitle", "keywordInMetaDescription", "keywordInURL",
       "keywordInFirst10Percent", "keywordInContent", "contentLength",
       "titleReadability", "contentReadability", "metaDescriptionLength",
       "keywordDensity" >>

\* Weight with 10 points for the keyword in the title
Weight_titleTen(rule) ==
    CASE rule \in {"keywordInFirst100Words", "keywordInFirst10Percent"} -> 15
      [] rule \in {"keywordInTitle", "keywordInMetaDescription", "keywordInURL",
                   "keywordInContent", "contentLength", "titleReadability",
                   "contentReadability"} -> 10
      [] OTHER -> 5

\* Weight with the points of the two meta description checks exchanged
Weight_swapped(rule) ==
    CASE rule = "keywordInMetaDescription" -> 5
      [] rule = "metaDescriptionLength"    -> 10
      [] rule \in {"keywordInTitle", "keywordInFirst100Words",
                   "keywordInFirst10Percent"} -> 15
      [] rule \in {"keywordInURL", "keywordInContent", "contentLength",
                   "titleReadability", "contentReadability"} -> 10
      [] OTHER -> 5

\* the points each check adds to validation.score
Weight(rule) ==
    CASE rule = "keywordInTitle"           -> 15
      [] rule = "keywordInMetaDescription" -> 10
      [] rule = "keywordInURL"             -> 10
      [] rule = "keywordInFirst100Words"   -> 15
      [] rule = "keywordInFirst10Percent"  -> 15
      [] rule = "keywordInContent"         -> 10
      [] rule = "contentLength"            -> 10
      [] rule = "titleReadability"         -> 10
      [] rule = "contentReadability"       -> 10
      [] rule = "metaDescriptionLength"    -> 5
      [] rule = "keywordDensity"           -> 5
      [] rule = "keywordInH2"              -> 5
      [] rule = "internalLinks"            -> 5
      [] rule = "keywordInImageAlt"        -> 5

\* lines 368-373: allContent, wordCount and keywordCount, taken once
ContentFacts(blocks, kw) ==
    [allContent   |-> AllContent(blocks),
     wordCount    |-> SplitLength(AllContent(blocks), kw),
     keywordCount |-> countKeywordOccurrences(AllContent(blocks), kw)]

\* the condition of each check's if statement
RulePass(rule, facts, kw, meta) ==
    LET allContent   == facts.allContent
        wordCount    == facts.wordCount
        keywordCount == facts.keywordCount
        descLen      == TextLen(meta.metaDescription, kw)
    IN CASE rule = "keywordInTitle" ->
              meta.h1 # <<>> /\ TextIncludesCI(meta.h1, kw)
         [] rule = "keywordInMetaDescription" ->
              meta.metaDescription # <<>> /\ TextIncludesCI(meta.metaDescription, kw)
         [] rule = "keywordInURL" ->
              /\ meta.slug # <<>>
              /\ TextIncludes(meta.slug, HyphenateSpaces(LowerSeq(kw)), kw)
         [] rule = "keywordInFirst100Words" ->
              FirstWordsInclude(allContent, kw, FirstWords)
         [] rule = "keywordInFirst10Percent" ->
              PrefixIncludes(allContent, kw, TextLen(allContent, kw) \div 10)
         [] rule = "keywordInContent" -> keywordCount > 0
         [] rule = "contentLength" -> wordCount >= MinWords
         [] rule = "titleReadability" ->
              meta.h1 # <<>> /\ TextLen(meta.h1, kw) <= MaxTitleLength
         [] rule = "contentReadability" -> TRUE
         [] rule = "metaDescriptionLength" ->
              /\ meta.metaDescription # <<>>
              /\ descLen >= MinDescriptionLength
              /\ descLen <= MaxDescriptionLength
         [] rule = "keywordDensity" ->
              \* 0.5 <= keywordCount / wordCount * 100 <= 2.5
              /\ 200 * keywordCount >= wordCount
              /\ 40 * keywordCount <= wordCount
         [] rule = "keywordInH2" ->
              TokCount(allContent, "h2kw") >= 1
                 /\ RegExpFinds(kw, TokText("h2kw", kw))
         [] rule = "internalLinks" -> TokCount(allContent, "a") >= MinLinks
         [] rule = "keywordInImageAlt" ->
              TokCount(allContent, "alt") >= 1
                 /\ RegExpFinds(kw, TokText("alt", kw))

\* which checks of `order` take their passing branch
RECURSIVE PassesFrom(_, _, _, _, _)
PassesFrom(order, facts, kw, meta, i) ==
    IF i > Len(order) THEN <<>>
    ELSE <<RulePass(order[i], facts, kw, meta)>>
            \o PassesFrom(order, facts, kw, meta, i + 1)

Passes(order, facts, kw, meta) == PassesFrom(order, facts, kw, meta, 1)

\* validation.score: every passing branch adds its points, nothing else does
RECURSIVE ScoreOf(_, _, _)
ScoreOf(order, pass, i) ==
    IF i > Len(order) THEN 0
    ELSE (IF pass[i] THEN Weight(order[i]) ELSE 0) + ScoreOf(order, pass, i + 1)

\* validation.checks: a key is set, to true, only in the passing branch
ChecksOf(order, pass) ==
    [r \in {order[i] : i \in {j \in 1..Len(order) : pass[j]}} |-> TRUE]

\* RecommendationsOf without the push of the content length branch
RECURSIVE RecommendationsOf_noLength(_, _, _)
RecommendationsOf_noLength(order, pass, i) ==
    IF i > Len(order) THEN <<>>
    ELSE (IF pass[i] \/ order[i] = "contentLength" THEN <<>> ELSE <<order[i]>>)
         \o RecommendationsOf_noLength(order, pass, i + 1)

\* validation.recommendations: one push in every failing branch, in order;
\* a recommendation is recorded by the name of the check that pushed it
RECURSIVE RecommendationsOf(_, _, _)
RecommendationsOf(order, pass, i) ==
    IF i > Len(order) THEN <<>>
    ELSE (IF pass[i] THEN <<>> ELSE <<order[i]>>)
         \o RecommendationsOf(order, pass, i + 1)

\* a call that ended in an exception instead of a result
Thrown ==
    [threw |-> TRUE, score |-> 0, maxScore |-> 0, checks |-> <<>>,
     recommendations |-> <<>>, wordCount |-> 0, keywordCount |-> 0]

ResultOf(order, blocks, kw, meta) ==
    LET facts == ContentFacts(blocks, kw)
        pass  == Passes(order, facts, kw, meta)
    IN [threw           |-> FALSE,
        score           |-> ScoreOf(order, pass, 1),
        maxScore        |-> 100,
        checks          |-> ChecksOf(order, pass),
        recommendations |-> RecommendationsOf(order, pass, 1),
        wordCount       |-> facts.wordCount,
        keywordCount    |-> facts.keywordCount]

\* lines 363-514: Check 11 and Check 13 build a RegExp from the raw keyword
validateSEOCompliance(blocks, kw, meta) ==
    IF ~RegExpCompiles(kw) THEN Thrown
    ELSE ResultOf(RuleOrder, blocks, kw, meta)

\* lines 780-880: the only RegExp is the escaped one of countKeywordOccurrences
validateSEOCompliance2(blocks, kw, meta) ==
    ResultOf(RuleOrder2, blocks, kw, meta)

-----------------------------------------------------------------------------
(* Planner: generateKeywordOptimizedStructure                              *)

\* Math.round(targetWordCount * pct / 100) for the percentages of the code
\* (0.08, 0.10, 0.12, 0.18, 0.20) and a non-negative targetWordCount:
\* rounding to nearest, a half rounding up
RoundPct(target, pct) == (2 * pct * target + 100) \div 200

\* `Understanding ${keyword}: Complete Overview` and the other headings, by
\* their words: "kwc" is the keyword followed by a colon, "kwq" by a
\* question mark
SectionHeadings ==
    << <<R("x", 1), R("kwc", 1), R("x", 2)>>,
       <<R("kwc", 1), R("x", 4)>>,
       <<R("x", 1), R("kw", 1), R("x", 2)>>,
       <<R("kw", 1), R("x", 5)>> >>

SectionHeadings2 ==
    << <<R("x", 2), R("kwq", 1)>>,
       <<R("x", 2), R("kw", 1)>>,
       <<R("x", 1), R("kw", 1), R("x", 1)>>,
       <<R("kw", 1), R("x", 3)>> >>

KeywordRequirements ==
    << "Include exact keyword phrase 2-3 times naturally in first paragraph",
       "Include keyword variations and related terms",
       "Include keyword in process descriptions and subheadings",
       "Include keyword with cost-related and financial terms" >>

KeywordRequirements2 ==
    << "Include keyword 2-3 times naturally",
       "Include keyword variations",
       "Include keyword in subheadings",
       "Include keyword with cost-related terms" >>

\* the conclusion takes 10% as in the second revision while the other
\* sections keep the shares of the first
generateKeywordOptimizedStructure_conclusion10(kw, target) ==
    [introduction |-> [wordCount |-> RoundPct(target, 10)],
     mainSections |->
        [i \in 1..4 |-> [heading |-> SectionHeadings[i],
                         wordCount |-> RoundPct(target, 20),
                         keywordRequirement |-> KeywordRequirements[i]]],
     conclusion |-> [wordCount |-> RoundPct(target, 10)]]

\* lines 120-173: 10%, four sections of 20%, 12%
generateKeywordOptimizedStructure(kw, target) ==
    [introduction |-> [wordCount |-> RoundPct(target, 10)],
     mainSections |->
        [i \in 1..4 |-> [heading |-> SectionHeadings[i],
                         wordCount |-> RoundPct(target, 20),
                         keywordRequirement |-> KeywordRequirements[i]]],
     conclusion |-> [wordCount |-> RoundPct(target, 12)]]

\* the introduction takes 10% as in the first revision while the other
\* sections keep the shares of the second
generateKeywordOptimizedStructure2_intro10(kw, target) ==
    [introduction |-> [wordCount |-> RoundPct(target, 10)],
     mainSections |->
        [i \in 1..4 |-> [heading |-> SectionHeadings2[i],
                         wordCount |-> RoundPct(target, 18),
                         keywordRequirement |-> KeywordRequirements2[i]]],
     conclusion |-> [wordCount |-> RoundPct(target, 10)]]

\* lines 660-701: 8%, four sections of 18%, 10%
generateKeywordOptimizedStructure2(kw, target) ==
    [introduction |-> [wordCount |-> RoundPct(target, 8)],
     mainSections |->
        [i \in 1..4 |-> [heading |-> SectionHeadings2[i],
                         wordCount |-> RoundPct(target, 18),
                         keywordRequirement |-> KeywordRequirements2[i]]],
     conclusion |-> [wordCount |-> RoundPct(target, 10)]]

-----------------------------------------------------------------------------
(* Gateway: prompts and the local fallback (geminiService.js)               *)

\* the text with every word in lower case
LowerTok(tok) ==
    CASE tok \in {"kw", "KW"} -> "kwl"
      [] tok = "kwc" -> "kwlc"
      [] tok = "X" -> "x"
      [] OTHER -> tok

LowerRuns(runs) == [i \in 1..Len(runs) |-> R(LowerTok(runs[i].tok), runs[i].n)]

CapTok(tok) ==
    CASE tok = "kwl" -> "kwlcap"
      [] tok = "kwlc" -> "kwlccap"
      [] tok = "x" -> "X"
      [] OTHER -> tok

\* keyword.charAt(0).toUpperCase() + keyword.slice(1), on a text
CapitalizeRuns(runs) ==
    IF runs = <<>> THEN <<>>
    ELSE <<R(CapTok(runs[1].tok), 1)>>
           \o (IF runs[1].n > 1 THEN <<R(runs[1].tok, runs[1].n - 1)>> ELSE <<>>)
           \o Tail(runs)

\* A prompt is known by what the gateway reads from it: the phrase between
\* the first pair of quotes that follows "for" (extractKeywordFromPrompt)
\* and which of the words the fallback looks for occur in it.
MetaPrompt ==
    [purpose |-> <<"meta", 0>>, quoted |-> <<>>,
     words |-> {"meta title", "meta description", "h1", "title"}]

IntroPrompt == [purpose |-> <<"intro", 0>>, quoted |-> <<R("kw", 1)>>, words |-> {}]

\* "subheadings" in a section's keywordRequirement puts "heading" in its prompt
SectionPrompt(section, i) ==
    [purpose |-> <<"section", i>>, quoted |-> section.heading,
     words |-> IF section.keywordRequirement
                     \in {KeywordRequirements[3], KeywordRequirements2[3]}
               THEN {"heading"} ELSE {}]

ConclusionPrompt ==
    [purpose |-> <<"conclusion", 0>>, quoted |-> <<R("kw", 1)>>, words |-> {}]

\* 'solar energy solutions' when no pattern matches
extractKeywordFromPrompt(prompt) ==
    IF prompt.quoted = <<>> THEN <<R("w", 1), R("energy", 1), R("w", 1)>>
    ELSE LowerRuns(prompt.quoted)

\* the four templates of getContentTemplates for the default company
\* context, word by word (markdown marks are not kept)
Template1(k) ==
    <<R("w", 1)>> \o k \o
    <<R("w", 12), R("energy", 1), R("dot", 1), R("w", 1), R("name", 1),
        R("w", 7), R("inst", 1), R("w", 8)>> \o
    k \o <<R("dot", 1), R("w", 3), R("nrel", 1), R("w", 1)>> \o k \o
    <<R("w", 5), R("dot", 1), R("name", 1), R("w", 9), R("dot", 1),
        R("w", 16)>> \o
    k \o <<R("dot", 1), R("w", 50)>>

Template2(k) ==
    <<R("w", 8)>> \o k \o
    <<R("w", 9), R("dot", 1), R("name", 1), R("w", 6), R("inst", 1),
        R("w", 5)>> \o
    k \o
    <<R("w", 7), R("dot", 1), R("w", 10), R("inst", 1), R("w", 5)>> \o
    k \o
    <<R("w", 5), R("dot", 1), R("w", 3), R("energy", 1), R("w", 2),
        R("name", 1), R("w", 8)>> \o
    k \o
    <<R("w", 41), R("inst", 1), R("w", 10), R("dot", 1), R("w", 6),
        R("dot", 1), R("w", 5), R("inst", 1), R("dot", 1), R("w", 6)>>

Template3(k) ==
    <<R("w", 4)>> \o k \o
    <<R("w", 7), R("dot", 1), R("name", 1), R("w", 11), R("dot", 1),
        R("w", 7), R("inst", 1), R("w", 11), R("inst", 1), R("w", 3),
        R("seia", 1), R("w", 3)>> \o
    k \o
    <<R("w", 4), R("dot", 1), R("w", 2), R("name", 1), R("w", 6),
        R("dot", 1), R("w", 4), R("dot", 1), R("w", 7), R("energy", 1),
        R("w", 1), R("dot", 1), R("w", 9), R("dot", 1), R("w", 1),
        R("inst", 1), R("w", 6), R("dot", 1), R("w", 10)>> \o
    k \o <<R("w", 8), R("dot", 1), R("w", 12), R("name", 1), R("w", 2)>>

Template4(k) ==
    CapitalizeRuns(k) \o
    <<R("w", 8), R("energy", 1), R("dot", 1), R("name", 1), R("w", 2)>> \o
    k \o
    <<R("w", 7), R("inst", 1), R("w", 7), R("inst", 1), R("dot", 1),
        R("name", 1), R("w", 9), R("dot", 1), R("w", 10)>> \o
    k \o
    <<R("w", 12), R("dot", 1), R("w", 3), R("name", 1), R("w", 8),
        R("inst", 1), R("w", 50), R("inst", 1), R("w", 8), R("name", 1),
        R("wmlink", 1), R("w", 6)>> \o
    k \o <<R("w", 9), R("dot", 1)>>

getContentTemplates(k) == <<Template1(k), Template2(k), Template3(k), Template4(k)>>

h1Options(k) ==
    << <<R("w", 1)>> \o CapitalizeRuns(k) \o <<R("w", 4)>>,
       CapitalizeRuns(k) \o <<R("w", 5)>>,
       <<R("w", 1)>> \o CapitalizeRuns(k) \o <<R("w", 2)>>,
       CapitalizeRuns(k) \o <<R("w", 6)>> >>

\* `${Keyword} Solutions | ${companyName} Expert Guide`
MetaTitleFallback(k) == CapitalizeRuns(k) \o <<R("w", 2), R("name", 1), R("w", 2)>>

\* `Discover comprehensive ${keyword} solutions with ${companyName}. ...`
MetaDescriptionFallback(k) ==
    <<R("w", 2)>> \o k \o <<R("w", 2), R("name", 1), R("w", 11), R("dot", 1)>>

\* what generateContent resolves to: the text, and in json the value
\* JSON.parse gives for it (no value when the text is not JSON)
Response(text) == [content |-> text, json |-> <<>>]

\* generateHighQualityFallback; r is Math.floor(Math.random() * 4) + 1
generateHighQualityFallback(prompt, r) ==
    LET k == extractKeywordFromPrompt(prompt)
    IN Response(
         IF "meta title" \in prompt.words THEN MetaTitleFallback(k)
         ELSE IF "meta description" \in prompt.words THEN MetaDescriptionFallback(k)
         ELSE IF prompt.words \cap {"h1", "title", "heading"} # {}
              THEN h1Options(k)[r]
              ELSE getContentTemplates(k)[r])

-----------------------------------------------------------------------------
(* Gateway: enhanceContentWithCompanyInfo                                   *)

\* new RegExp(companyContext.name, 'gi') matches the name, in a link to the
\* company's site as well
CompanyMentions(content) == TokCount(content, "name") + TokCount(content, "wmlink")

\* the first run of the text that holds one of the tokens, 0 when none does
FirstRun(runs, toks) ==
    LET hits == {i \in 1..Len(runs) : runs[i].tok \in toks}
    IN IF hits = {} THEN 0 ELSE CHOOSE i \in hits : \A j \in hits : i <= j

\* the text with ins put after the first word of run i
InsertAfter(runs, i, ins) ==
    SubSeq(runs, 1, i - 1) \o <<R(runs[i].tok, 1)>> \o ins
       \o (IF runs[i].n > 1 THEN <<R(runs[i].tok, runs[i].n - 1)>> ELSE <<>>)
       \o SubSeq(runs, i + 1, Len(runs))

\* the first ". ": the first word ending a sentence that another word follows
FirstSentenceEnd(runs) ==
    LET ends == {i \in 1..Len(runs) :
                    runs[i].tok = "dot" /\ (runs[i].n > 1 \/ i < Len(runs))}
    IN IF ends = {} THEN 0 ELSE CHOOSE i \in ends : \A j \in ends : i <= j

\* `. At ${name}, our expertise in ${servicesOffered} helps clients optimize
\* their ${keyword} strategies. `
MentionAfterSentence ==
    <<R("w", 1), R("name", 1), R("w", 7), R("inst", 1), R("w", 5),
      R("kw", 1), R("dot", 1)>>

\* `At ${name}, we specialize in ${servicesOffered} and understand the
\* importance of ${keyword}. `
MentionAtStart ==
    <<R("w", 1), R("name", 1), R("w", 7), R("inst", 1), R("w", 6), R("kw", 1)>>

\* `\n\n${name}'s team of experts is ready to help you with your ${keyword}
\* needs. Contact us to learn more about our ${servicesOffered}.`  A line
\* break, not a space, joins it to the text: its first word and the text's
\* last word are one piece of split(' '), so one word is not counted.
ClosingMention ==
    <<R("name", 1), R("w", 9), R("kw", 1), R("dot", 1), R("w", 11),
      R("inst", 1), R("dot", 1)>>

\* ` (according to ${text} at ${link})` for the three link patterns
PanelLink == <<R("w", 6), R("nrel", 1)>>

InstLink == <<R("w", 3), R("inst", 1), R("w", 2), R("seia", 1)>>

EnergyLink == <<R("w", 4), R("energy", 1), R("w", 3), R("doe", 1)>>

\* `\n\nFor professional ${keyword} solutions, visit WattMonk's services
\* at https://www.wattmonk.com/service/ to learn more about our ...`, joined
\* by a line break as well
ServicesLink ==
    <<R("w", 1), R("kw", 1), R("w", 1), R("visit", 1), R("name", 1), R("w", 2),
      R("wmlink", 1), R("w", 9), R("inst", 1), R("dot", 1)>>

MinParagraphLength == 20

MinLengthForClosing == 500

\* lines 221-235: a text that never names the company gets a sentence that
\* does, after its first sentence or, when it is short, in front
WithMention(content, kw) ==
    IF CompanyMentions(content) # 0 THEN content
    ELSE IF TextLen(content, kw) > MinParagraphLength
         THEN (IF FirstSentenceEnd(content) = 0 THEN content
               ELSE InsertAfter(content, FirstSentenceEnd(content),
                                MentionAfterSentence))
         ELSE MentionAtStart \o content

\* lines 238-244
WithClosing(content, mentions, kw) ==
    IF mentions < 2 /\ TextLen(content, kw) > MinLengthForClosing
    THEN content \o ClosingMention ELSE content

\* lines 247-274: the first match of a trigger is followed by its link,
\* unless the text holds the link already
WithLink(content, triggers, linkTok, ins) ==
    IF FirstRun(content, triggers) # 0 /\ TokCount(content, linkTok) = 0
    THEN InsertAfter(content, FirstRun(content, triggers), ins)
    ELSE content

\* lines 277-279
WithServicesLink(content, name) ==
    IF name = WattMonk /\ TokCount(content, "wmlink") = 0
    THEN content \o ServicesLink ELSE content

\* new RegExp(companyContext.name, 'gi') at line 218 throws for a name that
\* is not a regular expression
EnhanceThrows(content, name) ==
    content # <<>> /\ name # <<>> /\ ~RegExpCompiles(name)

enhanceContentWithCompanyInfo(content, name, kw) ==
    IF content = <<>> \/ name = <<>> THEN content
    ELSE LET c1 == WithMention(content, kw)
             c2 == WithClosing(c1, CompanyMentions(content), kw)
             c3 == WithLink(c2, {"panel"}, "nrel", PanelLink)
             c4 == WithLink(c3, {"inst"}, "seia", InstLink)
             c5 == WithLink(c4, {"energy", "doe"}, "doe", EnergyLink)
         IN WithServicesLink(c5, name)

-----------------------------------------------------------------------------
(* Gateway: generateContent (lines 20-86)                                   *)

textModels ==
    << "gemini-2.0-flash-exp", "gemini-1.5-pro-002", "gemini-1.5-flash-002",
       "gemini-pro" >>

\* how an attempt fails: an error response, no response within the 30 s
\* timeout, or a response without candidates[0].content.parts[0].text; all
\* three throw inside the try block
FailureKinds == {"error", "timeout", "malformed"}

\* the loop keeps the same model
NextModel_same(i) == i

\* i++ of the for loop
NextModel(i) == i + 1

\* the call starts: nothing tried, the loop at the first model
NewCall(prompt) ==
    [status |-> "running", prompt |-> prompt, i |-> 1, tried |-> <<>>,
     lastFailure |-> "none", source |-> "none", response |-> Response(<<>>)]

\* return { content: ... }
Settled(c, source, response) ==
    [c EXCEPT !.status = "settled", !.source = source, !.response = response]

Started(prompt) == [ev |-> "start", purpose |-> prompt.purpose, source |-> "none"]

Ended(c, source) == [ev |-> "end", purpose |-> c.prompt.purpose, source |-> source]

\* the caller resumes without the call having settled
Awaited_unsettled(c) == TRUE

\* await geminiService.generateContent(...): the caller resumes when the
\* call has settled
Awaited(c) == c.status = "settled"

-----------------------------------------------------------------------------
(* Meta optimizer: optimizeMetaData (lines 64-115)                          *)

\* a || b on strings
OrElse(a, b) == IF a # <<>> THEN a ELSE b

\* this.generateSEOSlug(keyword), as a text
SlugOf(kw) == IF generateSEOSlug(kw) = <<>> THEN <<>> ELSE <<R("slug", 1)>>

\* the value of JSON.parse: null, or an object whose absent fields are empty
JsonNull ==
    [null |-> TRUE, optimizedH1 |-> <<>>, optimizedMetaTitle |-> <<>>,
     optimizedMetaDescription |-> <<>>, optimizedSlug |-> <<>>]

JsonObject(h1, title, description, slug) ==
    [null |-> FALSE, optimizedH1 |-> h1, optimizedMetaTitle |-> title,
     optimizedMetaDescription |-> description, optimizedSlug |-> slug]

\* an optimizer that keeps an answer only when it holds all four fields
optimizeMetaData_allOrNothing(selected, response, kw) ==
    IF \/ response.json = <<>>
       \/ response.json[1].null
       \/ <<>> \in { response.json[1].optimizedH1,
                     response.json[1].optimizedMetaTitle,
                     response.json[1].optimizedMetaDescription,
                     response.json[1].optimizedSlug }
    THEN [h1 |-> selected.h1, metaTitle |-> selected.metaTitle,
          metaDescription |-> selected.metaDescription, slug |-> SlugOf(kw)]
    ELSE LET optimized == response.json[1]
         IN [h1 |-> optimized.optimizedH1,
             metaTitle |-> optimized.optimizedMetaTitle,
             metaDescription |-> optimized.optimizedMetaDescription,
             slug |-> optimized.optimizedSlug]

\* JSON.parse throwing, and reading a field of null, are both caught; the
\* fields keywordPlacement and estimatedScore, which nothing reads, are left
\* out
optimizeMetaData(selected, response, kw) ==
    IF response.json = <<>> \/ response.json[1].null
    THEN [h1 |-> selected.h1, metaTitle |-> selected.metaTitle,
          metaDescription |-> selected.metaDescription, slug |-> SlugOf(kw)]
    ELSE LET optimized == response.json[1]
         IN [h1 |-> OrElse(optimized.optimizedH1, selected.h1),
             metaTitle |-> OrElse(optimized.optimizedMetaTitle, selected.metaTitle),
             metaDescription |->
                OrElse(optimized.optimizedMetaDescription, selected.metaDescription),
             slug |-> OrElse(optimized.optimizedSlug, SlugOf(kw))]

-----------------------------------------------------------------------------
(* Assembler: generateSEOContentBlocks (lines 178-358)                      *)

\* blockId++
blockId(blocks) == Len(blocks) + 1

Block(prefix, blocks, type, content, seoNotes) ==
    [id |-> <<prefix, blockId(blocks)>>, type |-> type, content |-> content,
     seoNotes |-> seoNotes]

\* `\n\nReady to optimize your ${keyword} strategy? Contact ${name} today
\* for expert ${servicesOffered}. Visit https://www.wattmonk.com to learn
\* ...`, joined by a line break
CallToAction ==
    <<R("w", 3), R("kw", 1), R("w", 2), R("name", 1), R("w", 7), R("inst", 1),
      R("dot", 1), R("w", 1), R("wmlink", 1), R("w", 6), R("dot", 1)>>

\* lines 344-347
WithCallToAction(content) ==
    IF TokCount(content, "contact") = 0 /\ TokCount(content, "visit") = 0
    THEN content \o CallToAction ELSE content

-----------------------------------------------------------------------------
(* Scorer scenario: inputs drawn in Init, the scorer applied, then the     *)
(* keyword inserted into a description that lacks it and the score taken    *)
(* again.                                                                   *)

MaxBlocks == 2

\* focus keywords: one word, mixed case, two words, and two keywords holding
\* characters that are special in a regular expression ("s+o" compiles,
\* "(s" does not)
Keywords ==
    { <<"s", "o">>, <<"S", "o">>, <<"s", " ", "o">>,
      <<"s", "+", "o">>, <<"(", "s">> }

\* paragraph contents: empty; the keyword only after the first 100 words of
\* a text of 1102 words; markup (a heading, two links, an image) followed by
\* the keyword in capitals
BlockTexts ==
    { <<>>,
      <<R("x", FirstWords), R("kw", 6), R("x", MinWords - FirstWords - 6)>>,
      <<R("h2kw", 1), R("a", MinLinks), R("alt", 1), R("KW", 1)>> }

BlockSet ==
    [type : {"paragraph"}, content : BlockTexts]
       \cup [type : {"h2"}, content : {<<R("kw", 1)>>}]

BlockLists == UNION {[1..n -> BlockSet] : n \in 0..MaxBlocks}

\* h1: absent, the keyword, 61 characters without it
Titles == { <<>>, <<R("kw", 1)>>, <<R("x", 31)>> }

\* meta description: absent; the keyword and 137 more characters (140 or
\* 141 in all); and 139, 160, 161 characters without the keyword
Descriptions ==
    { <<>>, <<R("kw", 1), R("x", 69)>>,
      <<R("x", 70)>>, <<R("x", 79), R("xx", 1)>>, <<R("x", 81)>> }

\* slug: the hyphenated lower-case keyword, the keyword as typed
Slugs == { <<R("kwh", 1)>>, <<R("kw", 1)>> }

MetaDatas == [h1 : Titles, metaDescription : Descriptions, slug : Slugs]

NoResult ==
    [threw |-> FALSE, score |-> 0, maxScore |-> 0, checks |-> <<>>,
     recommendations |-> <<>>, wordCount |-> 0, keywordCount |-> 0]

ScorerInit ==
    /\ keyword \in Keywords
    /\ contentBlocks \in BlockLists
    /\ metaData \in MetaDatas
    /\ validation = NoResult
    /\ validation2 = NoResult
    /\ prevValidation = NoResult
    /\ spc = "input"

\* seoValidation = this.validateSEOCompliance(contentBlocks, keyword, meta)
Validate ==
    /\ spc = "input"
    /\ validation' = validateSEOCompliance(contentBlocks, keyword, metaData)
    /\ validation2' = validateSEOCompliance2(contentBlocks, keyword, metaData)
    /\ spc' = "scored"
    /\ UNCHANGED <<keyword, contentBlocks, metaData, prevValidation>>
    /\ UNCHANGED <<plannerVars, pipelineVars, draftVars, serviceVars>>

\* the description with the keyword inserted after its first p tokens
InsertAt(desc, p) ==
    SubSeq(desc, 1, p) \o <<R("kw", 1)>> \o SubSeq(desc, p + 1, Len(desc))

\* the keyword is inserted into a description that lacks it, everything
\* else unchanged, and the scorer is applied again
InsertKeyword ==
    /\ spc = "scored"
    /\ ~TextIncludesCI(metaData.metaDescription, keyword)
    /\ \E p \in 0..Len(metaData.metaDescription) :
          metaData' = [metaData EXCEPT
                         !.metaDescription = InsertAt(metaData.metaDescription, p)]
    /\ prevValidation' = validation
    /\ validation' = validateSEOCompliance(contentBlocks, keyword, metaData')
    /\ validation2' = validateSEOCompliance2(contentBlocks, keyword, metaData')
    /\ spc' = "rescored"
    /\ UNCHANGED <<keyword, contentBlocks>>
    /\ UNCHANGED <<plannerVars, pipelineVars, draftVars, serviceVars>>

ScorerNext == Validate \/ InsertKeyword

NoStructure ==
    [introduction |-> [wordCount |-> 0], mainSections |-> <<>>,
     conclusion |-> [wordCount |-> 0]]

PlannerIdle ==
    /\ targetWordCount = 0
    /\ structure = NoStructure
    /\ structure2 = NoStructure
    /\ ppc = "idle"

NoCall ==
    [status |-> "none", prompt |-> MetaPrompt, i |-> 0, tried |-> <<>>,
     lastFailure |-> "none", source |-> "none", response |-> Response(<<>>)]

PipelineIdle ==
    /\ companyName = WattMonk
    /\ apiKey = FALSE
    /\ pc = "idle"
    /\ sectionIndex = 0
    /\ call = NoCall
    /\ callLog = <<>>
    /\ error = "none"

\* no content has been generated for the draft yet
NoDraft ==
    [contentBlocks |-> <<>>, seoValidation |-> <<>>, uploadedImages |-> {},
     blogContent |-> <<>>, title |-> <<>>, metaTitle |-> <<>>,
     metaDescription |-> <<>>, slug |-> <<>>, status |-> "meta_selection"]

NoReply == [route |-> "none", status |-> 0, id |-> <<>>, content |-> <<>>]

DraftIdle ==
    /\ draft = NoDraft
    /\ reply = NoReply
    /\ requests = 0

\* no slug has been asked for
NoSlugs == [seo |-> <<>>, wordpress |-> <<>>]

\* no fallback text has been returned
NoFallbacks == [prompt |-> MetaPrompt, texts |-> <<>>]

\* deployToWordPress has not been called
NoDeployment ==
    [company |-> "complete", called |-> FALSE, threw |-> FALSE,
     result |-> [success |-> FALSE], outcome |-> "none", posted |-> <<>>,
     assembled |-> <<>>, widgets |-> <<>>, images |-> {}, widgetImages |-> {}]

\* no save request is in flight
NoSaving ==
    [at |-> "idle", given |-> FALSE, blocks |-> <<>>, images |-> {},
     found |-> NoDraft, status |-> 0]

ServiceIdle ==
    /\ slugs = NoSlugs
    /\ fallbackTexts = NoFallbacks
    /\ deployment = NoDeployment
    /\ saving = NoSaving

ScorerScenarioInit ==
    ScorerInit /\ PlannerIdle /\ PipelineIdle /\ DraftIdle /\ ServiceIdle

SpecScorer == ScorerScenarioInit /\ [][ScorerNext]_vars

-----------------------------------------------------------------------------
(* Properties of the scorer                                                *)

Scored == spc \in {"scored", "rescored"}

Returned == Scored /\ ~validation.threw

\* the rubric of the specification: ten rules, weights summing to 100
RubricRules == SubSeq(RuleOrder, 1, 10)

RubricWeight(rule) ==
    CASE rule = "keywordInTitle"           -> 15
      [] rule = "keywordInMetaDescription" -> 10
      [] rule = "keywordInURL"             -> 10
      [] rule = "keywordInFirst100Words"   -> 15
      [] rule = "keywordInContent"         -> 10
      [] rule = "contentLength"            -> 10
      [] rule = "titleReadability"         -> 10
      [] rule = "contentReadability"       -> 10
      [] rule = "metaDescriptionLength"    -> 5
      [] rule = "keywordDensity"           -> 5

\* the scorer's view of the content in the current state
Facts == ContentFacts(contentBlocks, keyword)

RECURSIVE RubricSumFrom(_, _)
RubricSumFrom(facts, i) ==
    IF i > Len(RubricRules) THEN 0
    ELSE (IF RulePass(RubricRules[i], facts, keyword, metaData)
          THEN RubricWeight(RubricRules[i]) ELSE 0) + RubricSumFrom(facts, i + 1)

RubricSum(i) == RubricSumFrom(Facts, i)

\* C1: the score returned by validateSEOCompliance lies between 0 and 100
\* inclusive, whatever the keyword, the blocks and the meta data.
C1_ScoreBetween0And100 ==
    Returned => (validation.score >= 0 /\ validation.score <= 100)

\* C6: the returned score is exactly the sum of the weights of the ten rubric
\* rules that pass; nothing else adds to it.
C6_ScoreIsRubricSum ==
    Returned => validation.score = RubricSum(1)

\* number of recommendations recorded for a rule
RecommendationsFor(res, rule) ==
    Cardinality({i \in DOMAIN res.recommendations : res.recommendations[i] = rule})

\* C7 (as stated): a rule that is not met has the value false in the checks
\* map and one recommendation; a rule that is met has true and none.
C7_FailedRuleHoldsFalse ==
    Returned =>
       LET facts == Facts IN
       \A i \in 1..Len(RuleOrder) :
          LET r == RuleOrder[i] IN
          IF RulePass(r, facts, keyword, metaData)
          THEN /\ r \in DOMAIN validation.checks
               /\ validation.checks[r] = TRUE
               /\ RecommendationsFor(validation, r) = 0
          ELSE /\ r \in DOMAIN validation.checks
               /\ validation.checks[r] = FALSE
               /\ RecommendationsFor(validation, r) = 1

\* the statement of C7 for one result and the checks it ran, with "holds
\* false" replaced by "holds no entry"
FailedRuleAbsent(res, order) ==
    LET facts == Facts IN
    \A i \in 1..Len(order) :
       LET r == order[i] IN
       IF RulePass(r, facts, keyword, metaData)
       THEN /\ r \in DOMAIN res.checks
            /\ res.checks[r] = TRUE
            /\ RecommendationsFor(res, r) = 0
       ELSE /\ r \notin DOMAIN res.checks
            /\ RecommendationsFor(res, r) = 1

\* C7 (amended): a rule that is not met has no entry in the checks map (it
\* reads as undefined, never as false) and exactly one recommendation; a
\* rule that is met has the value true and no recommendation.  Both
\* revisions of the scorer.
C7_FailedRuleHasNoEntry ==
    /\ Returned => FailedRuleAbsent(validation, RuleOrder)
    /\ Scored => FailedRuleAbsent(validation2, RuleOrder2)

\* C7 witness: a returned result with a failed rule and a met rule
C7_Witness ==
    /\ Returned
    /\ ~RulePass("contentLength", Facts, keyword, metaData)
    /\ RulePass("keywordInTitle", Facts, keyword, metaData)
    /\ Len(validation.recommendations) >= 2

\* C8: the scorer returns a result and never throws, for every keyword
\* string, every block list and every meta data object.
C8_ScorerNeverThrows ==
    Scored => ~validation.threw

\* C9: inserting the keyword into a meta description that lacks it, the
\* rest of the input unchanged, never lowers the score.
C9_InsertingKeywordNeverLowersScore ==
    (spc = "rescored" /\ ~validation.threw /\ ~prevValidation.threw)
       => validation.score >= prevValidation.score

\* C9 witness: the insertion pushed a description of 160 characters out of
\* the 140..160 range, and the score still rose
C9_Witness ==
    /\ spc = "rescored"
    /\ ~validation.threw /\ ~prevValidation.threw
    /\ "metaDescriptionLength" \in DOMAIN prevValidation.checks
    /\ "metaDescriptionLength" \notin DOMAIN validation.checks
    /\ validation.score = prevValidation.score + 5

-----------------------------------------------------------------------------
(* Planner scenario: a target word count is drawn and both revisions of    *)
(* the planner are applied to it.                                          *)

MaxTargetWordCount == 2600

ScorerIdle ==
    /\ keyword = <<"s", "o">>
    /\ contentBlocks = <<>>
    /\ metaData = [h1 |-> <<>>, metaDescription |-> <<>>, slug |-> <<>>]
    /\ validation = NoResult
    /\ validation2 = NoResult
    /\ prevValidation = NoResult
    /\ spc = "idle"

PlannerInit ==
    /\ targetWordCount \in 1..MaxTargetWordCount
    /\ structure = NoStructure
    /\ structure2 = NoStructure
    /\ ppc = "request"

\* contentStructure = await this.generateKeywordOptimizedStructure(
\*                        selectedKeyword, targetWordCount)
Plan ==
    /\ ppc = "request"
    /\ structure' = generateKeywordOptimizedStructure(keyword, targetWordCount)
    /\ structure2' = generateKeywordOptimizedStructure2(keyword, targetWordCount)
    /\ ppc' = "planned"
    /\ UNCHANGED targetWordCount
    /\ UNCHANGED <<scorerVars, pipelineVars, draftVars, serviceVars>>

PlannerNext == Plan

PlannerScenarioInit ==
    PlannerInit /\ ScorerIdle /\ PipelineIdle /\ DraftIdle /\ ServiceIdle

SpecPlanner == PlannerScenarioInit /\ [][PlannerNext]_vars

-----------------------------------------------------------------------------
(* Properties of the planner                                               *)

Planned == ppc = "planned"

RECURSIVE SectionWords(_, _)
SectionWords(sections, i) ==
    IF i = 0 THEN 0 ELSE sections[i].wordCount + SectionWords(sections, i - 1)

\* the planned word counts of the introduction, every body section and the
\* conclusion, added up
PlanSum(s) ==
    s.introduction.wordCount + SectionWords(s.mainSections, Len(s.mainSections))
       + s.conclusion.wordCount

\* introduction, body sections, conclusion
NumSections(s) == Len(s.mainSections) + 2

Distance(a, b) == IF a >= b THEN a - b ELSE b - a

\* C2 as stated: the planned word counts of all sections add up to a value
\* that differs from totalWordCount by at most the number of sections.
C2_SumWithinNumSectionsOfTotal ==
    Planned =>
       /\ Distance(PlanSum(structure), targetWordCount) <= NumSections(structure)
       /\ Distance(PlanSum(structure2), targetWordCount) <= NumSections(structure2)

\* C2 as the code has it: the planner always emits four body sections, and
\* the planned word counts of the six sections add up to a value that
\* differs from 102% of totalWordCount (10% + 4 x 20% + 12%) by at most the
\* number of sections; in the second revision (8% + 4 x 18% + 10%) from 90%
\* of totalWordCount.  Both distances are taken in hundredths of a word.
C2_SumWithinNumSectionsOfShare ==
    Planned =>
       /\ Len(structure.mainSections) = 4
       /\ Len(structure2.mainSections) = 4
       /\ Distance(100 * PlanSum(structure), 102 * targetWordCount)
             <= 100 * NumSections(structure)
       /\ Distance(100 * PlanSum(structure2), 90 * targetWordCount)
             <= 100 * NumSections(structure2)

\* the default target of 2500 words is planned as 2550 and as 2250 words
C2_Witness ==
    /\ Planned
    /\ targetWordCount = 2500
    /\ PlanSum(structure) = 2550
    /\ PlanSum(structure2) = 2250

-----------------------------------------------------------------------------
(* Pipeline scenario: one run of generateSEOOptimizedContent (lines 27-59), *)
(* the gateway answering each attempt of each call as it likes.             *)

\* of the four equally likely fallback texts, how many the runs draw from
FallbackChoices == 1

DefaultTargetWordCount == 2500

\* a plain keyword, and one that is no regular expression
PipelineKeywords == { <<"s", "o">>, <<"(", "s">> }

\* the default company, and a company whose name is no regular expression
CompanyNames == { WattMonk, <<"(", "w">> }

\* selectedH1, selectedMetaTitle, selectedMetaDescription of the draft
SelectedMeta ==
    [h1 |-> <<R("w", 3), R("kw", 1)>>,
     metaTitle |-> <<R("kw", 1), R("w", 1), R("name", 1)>>,
     metaDescription |-> <<R("w", 3), R("kw", 1), R("w", 3)>>,
     slug |-> <<>>]

\* a paragraph as a model writes it: 209 words, the keyword in the first
\* sentence, the company not named
GeneratedParagraph ==
    <<R("w", 3), R("kw", 1), R("w", 4), R("dot", 1), R("w", 200)>>

\* what a model answers the meta prompt with: prose, null, an empty
\* object, the object asked for
GeneratedMeta ==
    { Response(<<R("w", 3)>>),
      [content |-> <<R("w", 1)>>, json |-> <<JsonNull>>],
      [content |-> <<R("w", 2)>>, json |-> <<JsonObject(<<>>, <<>>, <<>>, <<>>)>>],
      [content |-> <<R("w", 12)>>,
       json |-> <<JsonObject(<<R("kw", 1), R("w", 5)>>,
                             <<R("kw", 1), R("w", 4), R("name", 1)>>,
                             <<R("kw", 1), R("w", 17)>>,
                             <<R("kwh", 1)>>)>>] }

ModelResponses(prompt) ==
    IF prompt.purpose[1] = "meta" THEN GeneratedMeta
    ELSE {Response(GeneratedParagraph)}

PipelineInit ==
    /\ keyword \in PipelineKeywords
    /\ companyName \in CompanyNames
    /\ apiKey \in BOOLEAN
    /\ targetWordCount = DefaultTargetWordCount
    /\ metaData = SelectedMeta
    /\ contentBlocks = <<>>
    /\ structure = NoStructure
    /\ structure2 = NoStructure
    /\ validation = NoResult
    /\ validation2 = NoResult
    /\ prevValidation = NoResult
    /\ spc = "idle"
    /\ ppc = "idle"
    /\ pc = "start"
    /\ sectionIndex = 0
    /\ call = NoCall
    /\ callLog = <<>>
    /\ error = "none"
    /\ DraftIdle
    /\ ServiceIdle

inputVars == <<keyword, companyName, apiKey, targetWordCount, validation2,
               prevValidation, structure2, spc, ppc>>

\* geminiService.generateContent(prompt, ...) is called
Issue(prompt) ==
    /\ call' = NewCall(prompt)
    /\ callLog' = Append(callLog, Started(prompt))

\* the attempt at the loop's index is over
Attempted(c, outcome) ==
    [c EXCEPT !.tried = Append(@, textModels[c.i]), !.lastFailure = outcome]

\* the call returns after an attempt
Settle(outcome, source, response) ==
    /\ call' = Settled(Attempted(call, outcome), source, response)
    /\ callLog' = Append(callLog, Ended(call, source))

\* the guard of lines 24-27 left out: the loop posts to the first model with
\* an undefined key and the attempt fails
GatewayWithoutKey_triesModels ==
    /\ call.status = "running"
    /\ ~apiKey
    /\ call.i < Len(textModels)
    /\ call' = [Attempted(call, "error") EXCEPT !.i = NextModel(call.i)]
    /\ UNCHANGED <<inputVars, draftVars, serviceVars, metaData, contentBlocks, structure, validation,
                   pc, sectionIndex, error, callLog>>

\* lines 24-27: no API key, the fallback at once
GatewayWithoutKey ==
    /\ call.status = "running"
    /\ ~apiKey
    /\ \E r \in 1..FallbackChoices :
          call' = Settled(call, "fallback",
                          generateHighQualityFallback(call.prompt, r))
    /\ callLog' = Append(callLog, Ended(call, "fallback"))
    /\ UNCHANGED <<inputVars, draftVars, serviceVars, metaData, contentBlocks, structure, validation,
                   pc, sectionIndex, error>>

\* lines 30-71: the model at the loop's index answers
GatewayAttemptSucceeds ==
    /\ call.status = "running"
    /\ apiKey
    /\ \E response \in ModelResponses(call.prompt) :
          Settle(call.lastFailure, "model", response)
    /\ UNCHANGED <<inputVars, draftVars, serviceVars, metaData, contentBlocks, structure, validation,
                   pc, sectionIndex, error>>

\* lines 73-84: the attempt throws; the next model, or after the last one
\* the fallback
GatewayAttemptFails ==
    /\ call.status = "running"
    /\ apiKey
    /\ \E kind \in FailureKinds :
          IF call.i = Len(textModels)
          THEN \E r \in 1..FallbackChoices :
                  Settle(kind, "fallback",
                         generateHighQualityFallback(call.prompt, r))
          ELSE /\ call' = [Attempted(call, kind) EXCEPT !.i = NextModel(call.i)]
               /\ UNCHANGED callLog
    /\ UNCHANGED <<inputVars, draftVars, serviceVars, metaData, contentBlocks, structure, validation,
                   pc, sectionIndex, error>>

\* an exception leaves generateSEOOptimizedContent
Throw(from) ==
    /\ pc' = "failed"
    /\ error' = from

\* line 91: optimizeMetaData calls the gateway
IssueMeta ==
    /\ pc = "start"
    /\ Issue(MetaPrompt)
    /\ pc' = "awaitMeta"
    /\ UNCHANGED <<inputVars, draftVars, serviceVars, metaData, contentBlocks, structure, validation,
                   sectionIndex, error>>

\* lines 92-113
ResumeMeta ==
    /\ pc = "awaitMeta"
    /\ Awaited(call)
    /\ metaData' = optimizeMetaData(metaData, call.response, keyword)
    /\ call' = NoCall
    /\ pc' = "plan"
    /\ UNCHANGED <<inputVars, draftVars, serviceVars, contentBlocks, structure, validation,
                   sectionIndex, callLog, error>>

\* line 44
PlanContent ==
    /\ pc = "plan"
    /\ structure' = generateKeywordOptimizedStructure(keyword, targetWordCount)
    /\ pc' = "intro"
    /\ UNCHANGED <<inputVars, draftVars, serviceVars, metaData, contentBlocks, validation,
                   sectionIndex, call, callLog, error>>

\* line 212
IssueIntro ==
    /\ pc = "intro"
    /\ Issue(IntroPrompt)
    /\ pc' = "awaitIntro"
    /\ UNCHANGED <<inputVars, draftVars, serviceVars, metaData, contentBlocks, structure, validation,
                   sectionIndex, error>>

\* enhanceContentWithCompanyInfo on the text the call returned
Enhanced ==
    enhanceContentWithCompanyInfo(call.response.content, companyName, keyword)

\* the paragraph of the call that returned is enhanced and pushed
PushParagraph(prefix, seoNotes, content) ==
    IF EnhanceThrows(call.response.content, companyName)
    THEN /\ Throw("enhanceContentWithCompanyInfo")
         /\ UNCHANGED <<contentBlocks, sectionIndex>>
    ELSE /\ contentBlocks' =
               Append(contentBlocks,
                      Block(prefix, contentBlocks, "paragraph", content, seoNotes))
         /\ error' = error

\* lines 215-226
ResumeIntro ==
    /\ pc = "awaitIntro"
    /\ Awaited(call)
    /\ PushParagraph("intro", "Keyword in first 100 words for RankMath compliance",
                     Enhanced)
    /\ call' = NoCall
    /\ IF EnhanceThrows(call.response.content, companyName) THEN TRUE
       ELSE pc' = "section" /\ sectionIndex' = 1
    /\ UNCHANGED <<inputVars, draftVars, serviceVars, metaData, structure, validation, callLog>>

\* lines 229-281: the heading is pushed, then the gateway called
IssueSection ==
    /\ pc = "section"
    /\ contentBlocks' =
          Append(contentBlocks,
                 Block("h2", contentBlocks, "h2",
                       structure.mainSections[sectionIndex].heading,
                       "H2 with focus keyword for content structure"))
    /\ Issue(SectionPrompt(structure.mainSections[sectionIndex], sectionIndex))
    /\ pc' = "awaitSection"
    /\ UNCHANGED <<inputVars, draftVars, serviceVars, metaData, structure, validation, sectionIndex,
                   error>>

\* lines 284-296, and the loop's step
ResumeSection ==
    /\ pc = "awaitSection"
    /\ Awaited(call)
    /\ PushParagraph("section",
                     structure.mainSections[sectionIndex].keywordRequirement, Enhanced)
    /\ call' = NoCall
    /\ IF EnhanceThrows(call.response.content, companyName) THEN TRUE
       ELSE /\ sectionIndex' = sectionIndex + 1
            /\ pc' = IF sectionIndex = Len(structure.mainSections)
                     THEN "conclusion" ELSE "section"
    /\ UNCHANGED <<inputVars, draftVars, serviceVars, metaData, structure, validation, callLog>>

\* line 336
IssueConclusion ==
    /\ pc = "conclusion"
    /\ Issue(ConclusionPrompt)
    /\ pc' = "awaitConclusion"
    /\ UNCHANGED <<inputVars, draftVars, serviceVars, metaData, contentBlocks, structure, validation,
                   sectionIndex, error>>

\* lines 339-357
ResumeConclusion ==
    /\ pc = "awaitConclusion"
    /\ Awaited(call)
    /\ PushParagraph("conclusion", "Conclusion with keyword and CTA",
                     WithCallToAction(Enhanced))
    /\ call' = NoCall
    /\ IF EnhanceThrows(call.response.content, companyName)
       THEN sectionIndex' = sectionIndex
       ELSE pc' = "validate" /\ sectionIndex' = sectionIndex
    /\ UNCHANGED <<inputVars, draftVars, serviceVars, metaData, structure, validation, callLog>>

\* lines 50-58
ValidateContent ==
    /\ pc = "validate"
    /\ validation' = validateSEOCompliance(contentBlocks, keyword, metaData)
    /\ IF validation'.threw THEN Throw("validateSEOCompliance")
       ELSE pc' = "returned" /\ error' = error
    /\ UNCHANGED <<inputVars, draftVars, serviceVars, metaData, contentBlocks, structure, sectionIndex,
                   call, callLog>>

Next ==
    \/ IssueMeta \/ ResumeMeta \/ PlanContent
    \/ IssueIntro \/ ResumeIntro
    \/ IssueSection \/ ResumeSection
    \/ IssueConclusion \/ ResumeConclusion
    \/ ValidateContent
    \/ GatewayWithoutKey \/ GatewayAttemptSucceeds \/ GatewayAttemptFails

Spec == PipelineInit /\ [][Next]_vars

-----------------------------------------------------------------------------
(* Properties of the gateway, the assembler and the pipeline                *)

\* the gateway calls of an assembly run, in the order the code makes them
CallOrder ==
    << <<"intro", 0>> >>
       \o [i \in 1..Len(structure.mainSections) |-> <<"section", i>>]
       \o << <<"conclusion", 0>> >>

IsParagraph(b) == b.type = "paragraph"

Paragraphs == SelectSeq(contentBlocks, IsParagraph)

\* the section a paragraph block was written for
RoleOf(b) ==
    IF b.id[1] = "section"
    THEN <<"section",
           CHOOSE i \in 0..Len(structure.mainSections) :
              \/ i > 0 /\ structure.mainSections[i].keywordRequirement = b.seoNotes
              \/ i = 0 /\ \A j \in 1..Len(structure.mainSections) :
                            structure.mainSections[j].keywordRequirement # b.seoNotes>>
    ELSE <<b.id[1], 0>>

IsAssemblerEvent(e) == e.purpose[1] # "meta"

AssemblerLog == SelectSeq(callLog, IsAssemblerEvent)

IsStart(e) == e.ev = "start"

IsEnd(e) == e.ev = "end"

\* every gateway call that has returned so far returned the fallback
AllCallsFailed == \A k \in 1..Len(callLog) : IsEnd(callLog[k]) => callLog[k].source = "fallback"

\* generateSEOContentBlocks has returned its blocks
Assembled ==
    \/ pc \in {"validate", "returned"}
    \/ pc = "failed" /\ error = "validateSEOCompliance"

\* one paragraph for each planned section, in the plan's order
OneParagraphPerSection ==
    /\ Len(Paragraphs) = Len(CallOrder)
    /\ \A j \in 1..Len(Paragraphs) : RoleOf(Paragraphs[j]) = CallOrder[j]

\* C4: a call tries each model of the list at most once and in order, a
\* failed attempt (a timed-out one as well) uses up its model, a call that
\* returns the fallback has used up the whole list (or had no key to try
\* with), so a call is over within Len(textModels) attempts.
C4_EachModelAtMostOnceThenFallback ==
    /\ Len(call.tried) <= Len(textModels)
    /\ call.tried = SubSeq(textModels, 1, Len(call.tried))
    /\ call.status = "running" =>
          /\ call.i = Len(call.tried) + 1
          /\ call.i <= Len(textModels)
    /\ call.lastFailure # "none" => call.tried # <<>>
    /\ call.status = "settled" =>
          \/ /\ call.source = "model"
             /\ call.tried # <<>>
             /\ call.response \in ModelResponses(call.prompt)
          \/ /\ call.source = "fallback"
             /\ \/ call.tried = textModels /\ call.lastFailure \in FailureKinds
                \/ call.tried = <<>> /\ ~apiKey
             /\ \E r \in 1..Len(getContentTemplates(<<>>)) :
                   call.response = generateHighQualityFallback(call.prompt, r)

\* a call whose four attempts all failed, the last by timing out, has
\* returned the fallback
C4_Witness ==
    /\ call.status = "settled"
    /\ call.source = "fallback"
    /\ call.tried = textModels
    /\ call.lastFailure = "timeout"

\* C10: the calls of an assembly run are made one at a time, each after the
\* one before has returned, in the order introduction, sections in plan
\* order, conclusion, and the paragraphs stand in the blocks in that order,
\* each one written by a call that has returned.
C10_CallsOneAtATimeInPlanOrder ==
    /\ \A k \in 1..Len(callLog) :
          IF k % 2 = 1 THEN IsStart(callLog[k])
          ELSE IsEnd(callLog[k]) /\ callLog[k].purpose = callLog[k - 1].purpose
    /\ LET starts == SelectSeq(AssemblerLog, IsStart)
           ends   == SelectSeq(AssemblerLog, IsEnd)
       IN /\ Len(starts) <= Len(CallOrder)
          /\ \A k \in 1..Len(starts) : starts[k].purpose = CallOrder[k]
          /\ Len(Paragraphs) <= Len(ends)
          /\ \A j \in 1..Len(Paragraphs) : RoleOf(Paragraphs[j]) = ends[j].purpose

\* an assembly run that made its six calls and pushed its six paragraphs
C10_Witness ==
    /\ pc = "validate"
    /\ Len(AssemblerLog) = 2 * Len(CallOrder)
    /\ Len(Paragraphs) = 6
    /\ ~AllCallsFailed

\* C3: if every call to the gateway fails, the assembler still returns a
\* non-empty block list, ordered introduction, sections in plan order,
\* conclusion, with one paragraph for each planned section.
C3_FallbackBlocksComplete ==
    AllCallsFailed =>
       /\ error # "enhanceContentWithCompanyInfo"
       /\ Assembled => (contentBlocks # <<>> /\ OneParagraphPerSection)

\* C5: whatever the gateway does on each call, generateSEOOptimizedContent
\* returns content blocks, meta data and a validation score; it never fails.
C5_AlwaysReturnsCompleteResult ==
    /\ pc # "failed"
    /\ pc = "returned" =>
          /\ contentBlocks # <<>> /\ OneParagraphPerSection
          /\ metaData.h1 # <<>> /\ metaData.metaDescription # <<>>
          /\ metaData.slug # <<>>
          /\ ~validation.threw
          /\ validation.score \in Nat

-----------------------------------------------------------------------------
(* The service as the routes see it: one call of                            *)
(* generateSEOOptimizedContent, given what the gateway returns to each of   *)
(* its calls.                                                               *)

\* what geminiService.generateContent returns for a prompt: a model's text,
\* or (no key, or every model failing) the fallback; r is the fallback's
\* random draw
generateContent(prompt, source, r) ==
    IF source = "model"
    THEN CHOOSE response \in ModelResponses(prompt) : TRUE
    ELSE generateHighQualityFallback(prompt, r)

\* lines 229-296: the heading block and the paragraph block of the sections
\* from the i-th on; texts[i + 1] is what the call for section i returned
RECURSIVE SectionBlocksFrom(_, _, _, _, _, _)
SectionBlocksFrom(blocks, sections, texts, name, kw, i) ==
    IF i > Len(sections) THEN blocks
    ELSE LET withHeading ==
                Append(blocks,
                       Block("h2", blocks, "h2", sections[i].heading,
                             "H2 with focus keyword for content structure"))
             withParagraph ==
                Append(withHeading,
                       Block("section", withHeading, "paragraph",
                             enhanceContentWithCompanyInfo(texts[i + 1], name, kw),
                             sections[i].keywordRequirement))
         IN SectionBlocksFrom(withParagraph, sections, texts, name, kw, i + 1)

\* lines 178-358; texts are the contents the calls returned, in call order
generateSEOContentBlocks(struct, kw, name, texts) ==
    LET intro ==
           << Block("intro", <<>>, "paragraph",
                    enhanceContentWithCompanyInfo(texts[1], name, kw),
                    "Keyword in first 100 words for RankMath compliance") >>
        body == SectionBlocksFrom(intro, struct.mainSections, texts, name, kw, 1)
    IN Append(body,
              Block("conclusion", body, "paragraph",
                    WithCallToAction(
                       enhanceContentWithCompanyInfo(texts[Len(texts)], name, kw)),
                    "Conclusion with keyword and CTA"))

\* the prompts of generateSEOContentBlocks, in call order
AssemblerPrompts(struct) ==
    <<IntroPrompt>>
       \o [i \in 1..Len(struct.mainSections) |->
              SectionPrompt(struct.mainSections[i], i)]
       \o <<ConclusionPrompt>>

\* the contents the gateway returns to the prompts from the j-th on
RECURSIVE TextsFrom(_, _, _)
TextsFrom(prompts, run, j) ==
    IF j > Len(prompts) THEN <<>>
    ELSE <<generateContent(prompts[j], run.sources[j], run.r).content>>
            \o TextsFrom(prompts, run, j + 1)

\* the promise of generateSEOOptimizedContent is rejected
ServiceThrew ==
    [threw |-> TRUE, optimizedMeta |-> SelectedMeta, contentBlocks |-> <<>>,
     seoValidation |-> Thrown]

\* lines 27-59; run.meta is what the gateway returns to the meta call,
\* run.sources[j] where the text of the assembler's j-th call comes from
generateSEOOptimizedContent(kw, selected, name, target, run) ==
    LET optimizedMeta == optimizeMetaData(selected, run.meta, kw)
        struct  == generateKeywordOptimizedStructure(kw, target)
        prompts == AssemblerPrompts(struct)
        texts   == TextsFrom(prompts, run, 1)
    IN IF \E j \in 1..Len(texts) : EnhanceThrows(texts[j], name)
       THEN ServiceThrew
       ELSE LET blocks == generateSEOContentBlocks(struct, kw, name, texts)
                seoValidation == validateSEOCompliance(blocks, kw, optimizedMeta)
            IN IF seoValidation.threw THEN ServiceThrew
               ELSE [threw |-> FALSE, optimizedMeta |-> optimizedMeta,
                     contentBlocks |-> blocks, seoValidation |-> seoValidation]

-----------------------------------------------------------------------------
(* POST /generate-structured-content (blogRoutes.js lines 1022-1322)        *)

\* the seoNotes the service writes, word by word
NoteWords(notes) ==
    CASE notes = "Keyword in first 100 words for RankMath compliance" ->
            <<"Keyword", "in", "first", "100", "words", "for", "RankMath",
              "compliance">>
      [] notes = "H2 with focus keyword for content structure" ->
            <<"H2", "with", "focus", "keyword", "for", "content", "structure">>
      [] notes = "Conclusion with keyword and CTA" ->
            <<"Conclusion", "with", "keyword", "and", "CTA">>
      [] notes = KeywordRequirements[1] ->
            <<"Include", "exact", "keyword", "phrase", "2-3", "times",
              "naturally", "in", "first", "paragraph">>
      [] notes = KeywordRequirements[2] ->
            <<"Include", "keyword", "variations", "and", "related", "terms">>
      [] notes = KeywordRequirements[3] ->
            <<"Include", "keyword", "in", "process", "descriptions", "and",
              "subheadings">>
      [] notes = KeywordRequirements[4] ->
            <<"Include", "keyword", "with", "cost-related", "and", "financial",
              "terms">>
      [] OTHER -> <<>>

\* block.seoNotes && block.seoNotes.includes(needle), for a needle of whole
\* words: the comparison keeps the case of the letters
NotesInclude(notes, needle) ==
    LET words == NoteWords(notes)
    IN \E i \in 1..Len(words) :
          /\ i + Len(needle) - 1 <= Len(words)
          /\ SubSeq(words, i, i + Len(needle) - 1) = needle

First100Words == <<"first", "100", "words">>

\* a block of the draft; of the fields the route writes, those nothing
\* reads afterwards (editable, wordCount, altText, seoOptimized) are left out
RouteBlock(prefix, blocks, type, imageType, content, seoNote) ==
    [id |-> <<prefix, Len(blocks) + 1>>, type |-> type, imageType |-> imageType,
     content |-> content, seoNote |-> seoNote, generated |-> FALSE,
     imageUrl |-> <<>>]

\* lines 1159-1161
IsIntroBlock(b) == b.type = "paragraph" /\ NotesInclude(b.seoNotes, First100Words)

\* lines 1174-1176
IsBodyBlock(b) ==
    \/ b.type = "h2"
    \/ b.type = "paragraph" /\ ~NotesInclude(b.seoNotes, First100Words)

\* lines 1228-1230
IsConclusionBlock(b) == NotesInclude(b.seoNotes, <<"conclusion">>)

\* the inline image follows every section
AfterSecondSection_everySection(index) == index % 2 = 1

\* line 1203: index === 3
AfterSecondSection(index) == index = 3

\* `Introduction content for ${selectedKeyword}...`
IntroductionDefault == <<R("w", 3), R("kwdots", 1)>>

\* `Ready to get started with ${selectedKeyword}? Contact ${companyName}
\* today for professional ${selectedKeyword} services and expert
\* consultation.`
ConclusionDefault ==
    <<R("w", 5), R("kwq", 1), R("w", 1), R("name", 1), R("w", 3), R("kw", 1),
      R("w", 3), R("dot", 1)>>

\* lines 1246-1251: the heading and the sentence of the references, each
\* naming the keyword, and the list of links
CitationsContent ==
    <<R("w", 6), R("kw", 1), R("w", 16), R("kw", 1), R("w", 20)>>

\* lines 1178-1225: seoContentBlocks.forEach((seoBlock, index) => ...), from
\* the k-th block on (index = k - 1)
RECURSIVE BodyBlocksFrom(_, _, _)
BodyBlocksFrom(blocks, seoContentBlocks, k) ==
    IF k > Len(seoContentBlocks) THEN blocks
    ELSE LET seoBlock == seoContentBlocks[k]
             pushed ==
                IF seoBlock.type = "h2"
                THEN Append(blocks,
                            RouteBlock("h2", blocks, "h2", "none",
                                       seoBlock.content, "none"))
                ELSE Append(blocks,
                            RouteBlock("section", blocks, "section", "none",
                                       seoBlock.content, seoBlock.seoNotes))
             withImage ==
                IF seoBlock.type = "paragraph" /\ AfterSecondSection(k - 1)
                THEN Append(pushed,
                            RouteBlock("inline-img", pushed, "image", "inline",
                                       <<>>, "none"))
                ELSE pushed
         IN BodyBlocksFrom(withImage, seoContentBlocks, k + 1)

\* lines 1121-1259: the block list the route stores in the draft
RouteContentBlocks(seoOptimizedContent) ==
    LET seoBlocks == seoOptimizedContent.contentBlocks
        intros == SelectSeq(seoBlocks, IsIntroBlock)
        conclusions == SelectSeq(seoBlocks, IsConclusionBlock)
        b1 == << RouteBlock("feature-img", <<>>, "image", "feature", <<>>, "none") >>
        b2 == Append(b1, RouteBlock("title", b1, "h1", "none",
                                    seoOptimizedContent.optimizedMeta.h1, "none"))
        b3 == Append(b2,
                 RouteBlock("intro", b2, "introduction", "none",
                            IF intros # <<>> THEN intros[1].content
                            ELSE IntroductionDefault,
                            "Keyword included in first 100 words for RankMath compliance"))
        b4 == BodyBlocksFrom(b3, SelectSeq(seoBlocks, IsBodyBlock), 1)
        b5 == Append(b4,
                 RouteBlock("conclusion", b4, "conclusion", "none",
                            IF conclusions # <<>> THEN conclusions[1].content
                            ELSE ConclusionDefault,
                            "Conclusion with keyword and CTA for RankMath compliance"))
    IN Append(b5, RouteBlock("citations", b5, "references", "none",
                             CitationsContent, "none"))

-----------------------------------------------------------------------------
(* Draft scenario: the requests the routes of blogRoutes.js serve for one   *)
(* draft, each handler one step.                                            *)

\* how many requests a run makes
MaxRequests == 3

\* where the texts of the assembler's calls come from in a run of the
\* service: every call answered by a model, every call by the fallback, or
\* the two in turn
SourcePatterns ==
    { <<"model", "model", "model", "model", "model", "model">>,
      <<"fallback", "fallback", "fallback", "fallback", "fallback", "fallback">>,
      <<"model", "fallback", "model", "fallback", "model", "fallback">> }

ModelsOnly == <<"model", "model", "model", "model", "model", "model">>

\* what the gateway does during one run of the service
GatewayRuns ==
    LET fallbacks == <<"fallback", "fallback", "fallback", "fallback",
                       "fallback", "fallback">>
    IN IF apiKey
       THEN { [meta |-> m, sources |-> ModelsOnly, r |-> r] :
                 m \in ModelResponses(MetaPrompt), r \in 1..FallbackChoices }
            \cup { [meta |-> generateHighQualityFallback(MetaPrompt, r),
                    sources |-> s, r |-> r] :
                      s \in SourcePatterns, r \in 1..FallbackChoices }
       ELSE { [meta |-> generateHighQualityFallback(MetaPrompt, r),
               sources |-> fallbacks, r |-> r] : r \in 1..FallbackChoices }

\* the draft of the requests, and a draft id no draft has
DraftIds == {"draft", "missing"}

\* a text a user writes into a block
EditedText == <<R("w", 5), R("kw", 1), R("dot", 1)>>

\* uploadedImages: the pairs of a block id and the address stored for it;
\* { ...old, ...new }
MergeImages(old, new) ==
    {p \in old : \A q \in new : q[1] # p[1]} \cup new

Replied(route, status, id, content) ==
    [route |-> route, status |-> status, id |-> id, content |-> content]

DraftInit ==
    /\ keyword \in PipelineKeywords
    /\ companyName \in CompanyNames
    /\ apiKey \in BOOLEAN
    /\ targetWordCount = DefaultTargetWordCount
    /\ metaData = SelectedMeta
    /\ contentBlocks = <<>>
    /\ structure = NoStructure
    /\ structure2 = NoStructure
    /\ validation = NoResult
    /\ validation2 = NoResult
    /\ prevValidation = NoResult
    /\ spc = "idle"
    /\ ppc = "idle"
    /\ pc = "idle"
    /\ sectionIndex = 0
    /\ call = NoCall
    /\ callLog = <<>>
    /\ error = "none"
    /\ DraftIdle
    /\ ServiceIdle

\* lines 1267-1291: Draft.findByIdAndUpdate(draftId, { generatedContent:
\* { contentBlocks, seoValidation, ... }, title, metaTitle, ... })
StoredDraft(seoOptimizedContent) ==
    [contentBlocks   |-> RouteContentBlocks(seoOptimizedContent),
     seoValidation   |-> <<seoOptimizedContent.seoValidation>>,
     uploadedImages  |-> {},
     blogContent     |-> <<>>,
     title           |-> seoOptimizedContent.optimizedMeta.h1,
     metaTitle       |-> seoOptimizedContent.optimizedMeta.metaTitle,
     metaDescription |-> seoOptimizedContent.optimizedMeta.metaDescription,
     slug            |-> seoOptimizedContent.optimizedMeta.slug,
     status          |-> "content_review"]

\* POST /generate-structured-content, lines 1022-1322; the workflow asks for
\* it once, when the meta data of the draft has been selected, before any
\* other request for the draft
GenerateStructuredContent ==
    /\ requests = 0
    /\ draft.status = "meta_selection"
    /\ \E draftId \in DraftIds, run \in GatewayRuns :
          IF draftId = "missing"
          THEN /\ reply' = Replied("generate-structured-content", 404, <<>>, <<>>)
               /\ draft' = draft
          ELSE LET seoOptimizedContent ==
                      generateSEOOptimizedContent(keyword, metaData, companyName,
                                                  targetWordCount, run)
               IN IF seoOptimizedContent.threw
                  THEN /\ reply' = Replied("generate-structured-content", 500,
                                           <<>>, <<>>)
                       /\ draft' = draft
                  ELSE /\ reply' = Replied("generate-structured-content", 200,
                                           <<>>, <<>>)
                       /\ draft' = StoredDraft(seoOptimizedContent)
    /\ requests' = requests + 1
    /\ UNCHANGED <<scorerVars, plannerVars, pipelineVars, serviceVars>>

\* the block ids a request names: those of the introduction and of the
\* first section when the draft has them, and an id no block has
RequestedBlockIds ==
    {draft.contentBlocks[i].id : i \in DOMAIN draft.contentBlocks \cap {3, 5}}
       \cup { <<"section", 99>> }

\* the content of every block of the requested block's type is replaced
RegeneratedBlocks_allOfType(blocks, requestedId, content) ==
    [i \in DOMAIN blocks |->
        IF \E j \in DOMAIN blocks :
              blocks[j].id = requestedId /\ blocks[j].type = blocks[i].type
        THEN [blocks[i] EXCEPT !.content = content]
        ELSE blocks[i]]

\* lines 1329-1390: the route answers with the block's id and its new
\* content; it writes nothing to the draft
RegeneratedBlocks(blocks, requestedId, content) == blocks

\* POST /regenerate-block, lines 1325-1396.  geminiService has no
\* generateBlockContent: the call at line 1377 throws a TypeError, which the
\* catch turns into status 500.
RegenerateBlock ==
    /\ requests < MaxRequests
    /\ \E draftId \in DraftIds, requestedId \in RequestedBlockIds,
          regenerationType \in {"manual", "ai"}, newContent \in {<<>>, EditedText} :
          /\ reply' =
                IF regenerationType = "manual" /\ newContent # <<>>
                THEN Replied("regenerate-block", 200, requestedId, newContent)
                ELSE IF draftId = "missing"
                     THEN Replied("regenerate-block", 404, requestedId, <<>>)
                     ELSE Replied("regenerate-block", 500, requestedId, <<>>)
          /\ draft' = [draft EXCEPT
                         !.contentBlocks = RegeneratedBlocks(@, requestedId, newContent)]
    /\ requests' = requests + 1
    /\ UNCHANGED <<scorerVars, plannerVars, pipelineVars, serviceVars>>

\* the article generateStructuredBlogContent parses from a model's answer
GeneratedArticle == <<R("w", 20), R("kw", 1), R("w", 20)>>

\* POST /:draftId/regenerate-content, lines 2239-2317: blogContent is set
\* when a model answers with the JSON asked for; the fallback of
\* generateStructuredBlogContent (geminiService.js lines 694-718) has no
\* success field, so the route throws and answers 500
RegenerateContent ==
    /\ requests < MaxRequests
    /\ \E draftId \in DraftIds, parsed \in BOOLEAN :
          IF draftId = "missing"
          THEN /\ reply' = Replied("regenerate-content", 404, <<>>, <<>>)
               /\ draft' = draft
          ELSE IF apiKey /\ parsed
               THEN /\ reply' = Replied("regenerate-content", 200, <<>>, <<>>)
                    /\ draft' = [draft EXCEPT !.blogContent = GeneratedArticle]
               ELSE /\ reply' = Replied("regenerate-content", 500, <<>>, <<>>)
                    /\ draft' = draft
    /\ requests' = requests + 1
    /\ UNCHANGED <<scorerVars, plannerVars, pipelineVars, serviceVars>>

\* the blocks of an image role
ImageBlocks(blocks, imageType) ==
    {i \in DOMAIN blocks :
        blocks[i].type = "image" /\ blocks[i].imageType = imageType}

\* req.body.contentBlocks of a save: none, an empty list, the draft's
\* blocks with the introduction edited, or the draft's blocks with the
\* address of an image written into the inline image block
SavedBlocks ==
    { [given |-> FALSE, blocks |-> <<>>], [given |-> TRUE, blocks |-> <<>>] }
       \cup { [given |-> TRUE,
               blocks |-> [draft.contentBlocks EXCEPT ![i].content = EditedText]] :
                 i \in DOMAIN draft.contentBlocks \cap {3} }
       \cup { [given |-> TRUE,
               blocks |-> [draft.contentBlocks EXCEPT ![i].imageUrl = <<"url">>,
                                                      ![i].generated = TRUE]] :
                 i \in ImageBlocks(draft.contentBlocks, "inline") }

\* req.body.uploadedImages of a save: none, or an address for one of the
\* image blocks
SavedImages ==
    { {} } \cup { { <<draft.contentBlocks[i].id, "url">> } :
                     i \in ImageBlocks(draft.contentBlocks, "feature")
                             \cup ImageBlocks(draft.contentBlocks, "inline") }

\* PUT /draft/:draftId/save, lines 1459-1528: generatedContent is replaced
\* by { contentBlocks, uploadedImages, imagePrompts, editedContent,
\* wordCount, lastSaved }, which has no seoValidation and no blogContent
SaveDraft ==
    /\ requests < MaxRequests
    /\ \E draftId \in DraftIds, body \in SavedBlocks, uploadedImages \in SavedImages :
          IF draftId = "missing"
          THEN /\ reply' = Replied("save", 404, <<>>, <<>>)
               /\ draft' = draft
          ELSE /\ reply' = Replied("save", 200, <<>>, <<>>)
               /\ draft' = [draft EXCEPT
                              !.contentBlocks =
                                 IF body.given THEN body.blocks ELSE @,
                              !.uploadedImages = MergeImages(@, uploadedImages),
                              !.seoValidation = <<>>,
                              !.blogContent = <<>>]
    /\ requests' = requests + 1
    /\ UNCHANGED <<scorerVars, plannerVars, pipelineVars, serviceVars>>

DraftNext ==
    \/ GenerateStructuredContent
    \/ RegenerateBlock
    \/ RegenerateContent
    \/ SaveDraft

SpecDraft == DraftInit /\ [][DraftNext]_vars

-----------------------------------------------------------------------------
(* Properties of the draft's block list                                     *)

\* the route has just assembled the draft's block list and stored it
JustAssembled ==
    reply.route = "generate-structured-content" /\ reply.status = 200

\* blocks[i] follows a heading that itself does not follow a heading
FollowsOneHeading(blocks, i) ==
    /\ i > 1
    /\ blocks[i - 1].type = "h2"
    /\ i > 2 => blocks[i - 2].type # "h2"

\* C11: in every assembled block list, each body paragraph (a block of type
\* section) is immediately preceded by exactly one heading block.
C11_BodyParagraphFollowsOneHeading ==
    JustAssembled =>
       \A i \in DOMAIN draft.contentBlocks :
          draft.contentBlocks[i].type = "section" =>
             FollowsOneHeading(draft.contentBlocks, i)

\* C12: every assembled block list holds exactly one feature image
\* placeholder, and exactly one inline image placeholder when the plan has
\* at least two body sections.
C12_OneFeatureAndOneInlineImage ==
    JustAssembled =>
       /\ Cardinality(ImageBlocks(draft.contentBlocks, "feature")) = 1
       /\ Len(generateKeywordOptimizedStructure(keyword, targetWordCount).mainSections) >= 2
             => Cardinality(ImageBlocks(draft.contentBlocks, "inline")) = 1

\* a list assembled from a plan of four sections: the feature image comes
\* first, the inline image right after the second section
C12_Witness ==
    /\ JustAssembled
    /\ Len(generateKeywordOptimizedStructure(keyword, targetWordCount).mainSections) = 4
    /\ ImageBlocks(draft.contentBlocks, "feature") = {1}
    /\ ImageBlocks(draft.contentBlocks, "inline") = {8}
    /\ draft.contentBlocks[7].type = "section"

\* the meta data stored with the draft
DraftMeta ==
    [h1 |-> draft.title, metaTitle |-> draft.metaTitle,
     metaDescription |-> draft.metaDescription, slug |-> draft.slug]

\* C17: whenever the draft holds generated content, the SEO validation
\* result stored with it is the scorer's result for the content blocks and
\* meta data stored in the draft.
C17_StoredValidationIsScoreOfStoredContent ==
    draft.status = "content_review" =>
       draft.seoValidation =
          <<validateSEOCompliance(draft.contentBlocks, keyword, DraftMeta)>>

\* the positions where two block lists of the same length differ
ChangedBlocks(before, after) ==
    {i \in DOMAIN before : after[i] # before[i]}

-----------------------------------------------------------------------------
(* Meta scenario: optimizeMetaData (lines 64-115) on its own, for keywords  *)
(* of every shape and for every kind of answer of the gateway.              *)

\* n times the letter "a"
RECURSIVE Pad(_)
Pad(n) == IF n = 0 THEN <<>> ELSE <<"a">> \o Pad(n - 1)

\* the keyword of the specification's example, and the slug it names
ExampleKeyword ==
    <<"S", "o", "l", "a", "r", " ", "P", "a", "n", "e", "l", " ",
      "I", "n", "s", "t", "a", "l", "l", "a", "t", "i", "o", "n", "!">>

ExampleSlug ==
    <<"s", "o", "l", "a", "r", "-", "p", "a", "n", "e", "l", "-",
      "i", "n", "s", "t", "a", "l", "l", "a", "t", "i", "o", "n">>

\* a first word of n letters followed by a second word
LongKeyword(n) == Pad(n) \o <<" ", "b">>

\* keywords around the cap of 50 characters, and keywords that hold
\* punctuation, leading and doubled hyphens, doubled spaces
MetaKeywords ==
    Keywords
      \cup { ExampleKeyword, <<"!">>, <<"-", "s">>, <<"s", "-", "-", "o">>,
             <<"s", " ", " ", "o">>, <<"s", " ", "-", " ", "o">> }
      \cup { LongKeyword(n) : n \in (MaxSlugLength - 2)..(MaxSlugLength + 1) }

\* an answer that holds the heading only, and answers that hold all four
\* fields, the slug being the keyword in capitals followed by seven words
\* ("SO xxxxxxx ..."), or the keyword as typed
PartialMeta ==
    [content |-> <<R("w", 4)>>,
     json |-> <<JsonObject(<<R("kw", 1), R("w", 5)>>, <<>>, <<>>, <<>>)>>]

UnslugLikeMeta ==
    { [content |-> <<R("w", 13)>>,
       json |-> <<JsonObject(<<R("kw", 1), R("w", 5)>>,
                             <<R("kw", 1), R("w", 4), R("name", 1)>>,
                             <<R("kw", 1), R("w", 17)>>,
                             slug)>>] :
        slug \in { <<R("KW", 1), R("w", 7)>>, <<R("kw", 1)>> } }

\* what generateContent can return for the meta prompt: a model's answer
\* when a key is configured, the fallback text otherwise or when every
\* model has failed
MetaAnswers(source) ==
    IF source = "model"
    THEN GeneratedMeta \cup {PartialMeta} \cup UnslugLikeMeta
    ELSE { generateHighQualityFallback(MetaPrompt, r) : r \in 1..FallbackChoices }

MetaInit ==
    /\ keyword \in MetaKeywords
    /\ companyName = WattMonk
    /\ apiKey \in BOOLEAN
    /\ metaData = SelectedMeta
    /\ pc = "start"
    /\ contentBlocks = <<>>
    /\ validation = NoResult
    /\ validation2 = NoResult
    /\ prevValidation = NoResult
    /\ spc = "idle"
    /\ PlannerIdle
    /\ sectionIndex = 0
    /\ call = NoCall
    /\ callLog = <<>>
    /\ error = "none"
    /\ DraftIdle
    /\ ServiceIdle

\* lines 64-115, the whole of optimizeMetaData: the call of the gateway
\* (which cannot throw, C3), JSON.parse, the object returned.  The answer
\* stays in call; which models were tried first is not followed here.
OptimizeMeta ==
    /\ pc = "start"
    /\ \E source \in {"model", "fallback"} :
         /\ source = "model" => apiKey
         /\ \E answer \in MetaAnswers(source) :
              /\ call' = Settled(NewCall(MetaPrompt), source, answer)
              /\ metaData' = optimizeMetaData(metaData, answer, keyword)
    /\ pc' = "optimized"
    /\ UNCHANGED <<inputVars, draftVars, serviceVars, contentBlocks, structure,
                   validation, sectionIndex, callLog, error>>

SpecMeta == MetaInit /\ [][OptimizeMeta]_vars

\* the object the prompt asks for: JSON, not null, the four fields present
ExpectedObject(response) ==
    /\ response.json # <<>>
    /\ ~response.json[1].null
    /\ response.json[1].optimizedH1 # <<>>
    /\ response.json[1].optimizedMetaTitle # <<>>
    /\ response.json[1].optimizedMetaDescription # <<>>
    /\ response.json[1].optimizedSlug # <<>>

\* the draft values untouched, plus the rule-derived slug
DraftValues(kw) == [SelectedMeta EXCEPT !.slug = SlugOf(kw)]

\* C13 as stated: whenever the gateway's answer is not the expected object,
\* the Meta Optimizer returns the draft's h1, metaTitle and metaDescription
\* and the slug generateSlug(keyword).
C13_UnparsedAnswerReturnsDraftValues ==
    (pc = "optimized" /\ ~ExpectedObject(call.response))
        => metaData = DraftValues(keyword)

\* C13 amended: an answer that is no JSON or is null gives the draft values
\* and generateSlug(keyword); an answer that is an object gives, field by
\* field, the answer's value where it holds one and the draft's value (the
\* generated slug) where it holds none.
C13_MissingFieldsFallBackOneByOne ==
    pc = "optimized" =>
       IF call.response.json = <<>> \/ call.response.json[1].null
       THEN metaData = DraftValues(keyword)
       ELSE LET optimized == call.response.json[1]
                given(answered, selected) ==
                    IF answered # <<>> THEN answered ELSE selected
            IN /\ metaData.h1 = given(optimized.optimizedH1, SelectedMeta.h1)
               /\ metaData.metaTitle
                     = given(optimized.optimizedMetaTitle, SelectedMeta.metaTitle)
               /\ metaData.metaDescription
                     = given(optimized.optimizedMetaDescription,
                             SelectedMeta.metaDescription)
               /\ metaData.slug = given(optimized.optimizedSlug, SlugOf(keyword))

\* an answer holding the heading only has been merged with the draft
C13_Witness ==
    /\ pc = "optimized"
    /\ call.response = PartialMeta
    /\ metaData.h1 = <<R("kw", 1), R("w", 5)>>
    /\ metaData.metaTitle = SelectedMeta.metaTitle
    /\ metaData.slug = SlugOf(keyword)
    /\ keyword = ExampleKeyword

\* the characters of n copies of a token, joined by spaces
RECURSIVE RepeatChars(_, _)
RepeatChars(t, n) ==
    IF n = 0 THEN <<>>
    ELSE IF n = 1 THEN t ELSE t \o <<" ">> \o RepeatChars(t, n - 1)

\* the characters of a text
RECURSIVE TextChars(_, _)
TextChars(runs, kw) ==
    IF runs = <<>> THEN <<>>
    ELSE LET h == RepeatChars(TokText(Head(runs).tok, kw), Head(runs).n)
         IN IF Len(runs) = 1 THEN h ELSE h \o <<" ">> \o TextChars(Tail(runs), kw)

\* lowercase letters and digits separated by single hyphens, 50 characters
\* at most
WellFormedSlug(s) ==
    /\ Len(s) <= MaxSlugLength
    /\ \A i \in 1..Len(s) : s[i] \in SlugAlphabet \ {" "}
    /\ s # <<>> => s[1] # "-" /\ s[Len(s)] # "-"
    /\ \A i \in 1..(Len(s) - 1) : ~(s[i] = "-" /\ s[i + 1] = "-")

\* C14: whatever the gateway answered, the slug of the MetaData returned is
\* at most 50 characters long and is made of lowercase letters and digits
\* separated by single hyphens.
C14_ReturnedSlugIsWellFormed ==
    pc = "optimized" => WellFormedSlug(TextChars(metaData.slug, keyword))

-----------------------------------------------------------------------------
(* Slug scenario: the two generateSEOSlug, of seoOptimizationService.js     *)
(* (lines 528-536) and of wordpressService.js (lines 547-555), each called  *)
(* on the same text.                                                        *)

\* wordpressService.js lines 547-555: the same chain of replacements
wordpressGenerateSEOSlug(text) ==
    LET lower     == LowerSeq(text)
        stripped  == StripNonSlug(lower)
        collapsed == CollapseHyphens(stripped, FALSE)
        trimmed   == TrimHyphens(collapsed)
    IN IF Len(trimmed) <= MaxSlugLength THEN trimmed
       ELSE SubSeq(trimmed, 1, MaxSlugLength)

\* the characters the texts are made of
SlugInputChars == {"a", "B", " ", "-", "!"}

\* texts that end in any two of these characters, short and near the cap
SlugInputs ==
    MetaKeywords
      \cup { Pad(n) \o <<c, d>> :
               n \in {0} \cup (MaxSlugLength - 3)..(MaxSlugLength - 1),
               c \in SlugInputChars, d \in SlugInputChars }

SlugInit ==
    /\ keyword \in SlugInputs
    /\ contentBlocks = <<>>
    /\ metaData = SelectedMeta
    /\ validation = NoResult
    /\ validation2 = NoResult
    /\ prevValidation = NoResult
    /\ spc = "idle"
    /\ PlannerIdle
    /\ PipelineIdle
    /\ DraftIdle
    /\ ServiceIdle

\* seoOptimizationService.js lines 102 and 110: this.generateSEOSlug(keyword)
GenerateSlug ==
    /\ slugs.seo = <<>>
    /\ slugs' = [slugs EXCEPT !.seo = <<generateSEOSlug(keyword)>>]
    /\ UNCHANGED <<scorerVars, plannerVars, pipelineVars, draftVars,
                   fallbackTexts, deployment, saving>>

\* wordpressService.js line 40: this.generateSEOSlug(draftData.focusKeyword)
GenerateSlugForPost ==
    /\ slugs.wordpress = <<>>
    /\ slugs' = [slugs EXCEPT !.wordpress = <<wordpressGenerateSEOSlug(keyword)>>]
    /\ UNCHANGED <<scorerVars, plannerVars, pipelineVars, draftVars,
                   fallbackTexts, deployment, saving>>

SlugNext == GenerateSlug \/ GenerateSlugForPost

SpecSlug == SlugInit /\ [][SlugNext]_vars

\* C15: generateSlug gives "solar-panel-installation" for the keyword
\* "Solar Panel Installation!", in the optimizer's service and in the
\* publisher's; the slug is a function of the text alone, so that the two
\* services agree on every text.
C15_ExampleKeywordGivesExampleSlug ==
    /\ (keyword = ExampleKeyword /\ slugs.seo # <<>>)
          => slugs.seo[1] = ExampleSlug
    /\ (keyword = ExampleKeyword /\ slugs.wordpress # <<>>)
          => slugs.wordpress[1] = ExampleSlug
    /\ (slugs.seo # <<>> /\ slugs.wordpress # <<>>)
          => slugs.seo = slugs.wordpress

\* both services have made the slug of the example keyword
C15_Witness ==
    /\ keyword = ExampleKeyword
    /\ slugs.seo = <<ExampleSlug>>
    /\ slugs.wordpress = <<ExampleSlug>>

-----------------------------------------------------------------------------
(* Fallback scenario: the gateway fails for the same prompt of the          *)
(* assembler more than once (geminiService.js lines 121-170).               *)

\* how many times the fallback is asked for the same prompt
MaxFallbackRuns == 2

\* the prompts of the assembler for the default plan
FallbackPrompts ==
    LET prompts ==
          AssemblerPrompts(
             generateKeywordOptimizedStructure(<<>>, DefaultTargetWordCount))
    IN { prompts[i] : i \in 1..Len(prompts) }

FallbackInit ==
    /\ keyword \in Keywords
    /\ fallbackTexts \in [prompt : FallbackPrompts, texts : {<<>>}]
    /\ slugs = NoSlugs
    /\ deployment = NoDeployment
    /\ saving = NoSaving
    /\ contentBlocks = <<>>
    /\ metaData = SelectedMeta
    /\ validation = NoResult
    /\ validation2 = NoResult
    /\ prevValidation = NoResult
    /\ spc = "idle"
    /\ PlannerIdle
    /\ PipelineIdle
    /\ DraftIdle

\* lines 160-169: Math.floor(Math.random() * contentTemplates.length) picks
\* the template (lines 146-152: the heading) that is returned
SubstituteFallback ==
    /\ Len(fallbackTexts.texts) < MaxFallbackRuns
    /\ \E r \in 1..Len(getContentTemplates(<<>>)) :
         fallbackTexts' =
            [fallbackTexts EXCEPT
               !.texts = Append(@, generateHighQualityFallback(
                                       fallbackTexts.prompt, r).content)]
    /\ UNCHANGED <<scorerVars, plannerVars, pipelineVars, draftVars,
                   slugs, deployment, saving>>

SpecFallback == FallbackInit /\ [][SubstituteFallback]_vars

\* C16: the paragraph substituted for a section when the gateway fails is a
\* function of the keyword and the company name: asked again for the same
\* section, keyword and company, the fallback gives the same paragraph.
C16_SameFallbackForSameSection ==
    \A i, j \in 1..Len(fallbackTexts.texts) :
        fallbackTexts.texts[i] = fallbackTexts.texts[j]

-----------------------------------------------------------------------------
(* Publishing: POST /deploy-wordpress (blogRoutes.js lines 1531-1792),      *)
(* deployToWordPress (wordpressService.js lines 30-132) and the Elementor   *)
(* conversion of the same file (lines 909-1130).  Rendered output is kept   *)
(* as a sequence of fragments, one per piece of markup.                     *)

\* the address a widget shows for an image block that has none (line 1097)
PlaceholderUrl == "https://via.placeholder.com/800x400"

\* one piece of rendered output: the block it stems from, the markup it is
\* and, for an image, the address it references
Fragment(block, kind, src) ==
    [id |-> block.id, from |-> block.type, kind |-> kind, src |-> src]

\* the blocks the renderers append by themselves (related articles)
Appended(kind) ==
    [id |-> <<kind, 0>>, from |-> "none", kind |-> kind, src |-> <<>>]

\* blogRoutes.js lines 1142 and 1218: every image block of the route
\* carries the prompt generateDynamicImagePrompt returned, which is not empty
imagePrompt(block) == IF block.type = "image" THEN <<R("w", 20)>> ELSE <<>>

\* uploadedImages[id]: the addresses stored for a block id (one at most)
UploadedFor(uploadedImages, id) ==
    { p[2] : p \in { q \in uploadedImages : q[1] = id } }

\* blogRoutes.js lines 1557-1620: the markup of one block; '' is filtered out
AssembledBlock(block, uploadedImages) ==
    CASE block.type \in {"h1", "title"} -> <<Fragment(block, "h1", <<>>)>>
      [] block.type = "h2" -> <<Fragment(block, "h2", <<>>)>>
      [] block.type \in {"introduction", "section", "conclusion"} ->
            <<Fragment(block, "p", <<>>)>>
      [] block.type = "references" -> <<Fragment(block, "group", <<>>)>>
      [] block.type = "image" ->
            IF block.imageType = "feature" THEN <<>>
            ELSE IF UploadedFor(uploadedImages, block.id) # {}
                 THEN <<Fragment(block, "img",
                           <<CHOOSE u \in UploadedFor(uploadedImages, block.id) :
                                TRUE>>)>>
                 ELSE IF imagePrompt(block) # <<>>
                      THEN <<Fragment(block, "comment", <<>>)>>
                      ELSE <<>>
      [] OTHER -> <<>>

RECURSIVE AssembledFrom(_, _, _)
AssembledFrom(blocks, uploadedImages, i) ==
    IF i > Len(blocks) THEN <<>>
    ELSE AssembledBlock(blocks[i], uploadedImages)
            \o AssembledFrom(blocks, uploadedImages, i + 1)

\* blogRoutes.js lines 1547-1722: assembledContent; the draft's article when
\* it has no blocks, '<p>Content coming soon...</p>' when it has neither
\* (the draft has no internal or external links and no related blogs)
AssembledContent(d) ==
    IF d.contentBlocks # <<>>
    THEN AssembledFrom(d.contentBlocks, d.uploadedImages, 1)
    ELSE IF d.blogContent # <<>> THEN <<Appended("article")>>
         ELSE <<Appended("coming soon")>>

\* wordpressService.js lines 591-630: the markup of one block
HtmlOfBlock(block) ==
    CASE block.type \in {"h1", "title"} -> <<Fragment(block, "h1", <<>>)>>
      [] block.type = "h2" -> <<Fragment(block, "h2", <<>>)>>
      [] block.type = "h3" -> <<Fragment(block, "h3", <<>>)>>
      [] block.type \in {"paragraph", "introduction", "section"} ->
            <<Fragment(block, "p", <<>>)>>
      [] block.type = "list" -> <<Fragment(block, "ul", <<>>)>>
      [] block.type = "image" ->
            IF block.imageUrl # <<>>
            THEN <<Fragment(block, "img", block.imageUrl)>>
            ELSE <<>>
      [] OTHER -> <<Fragment(block, "p", <<>>)>>

RECURSIVE HtmlFrom(_, _)
HtmlFrom(blocks, i) ==
    IF i > Len(blocks) THEN <<>>
    ELSE HtmlOfBlock(blocks[i]) \o HtmlFrom(blocks, i + 1)

\* wordpressService.js lines 585-637
convertContentBlocksToHTML(blocks) ==
    HtmlFrom(blocks, 1) \o <<Appended("related")>>

\* wordpressService.js lines 983-1130: the widget of one block; no block of
\* the draft has a field src
convertBlockToWidget(block) ==
    CASE block.type \in {"h1", "title"} -> Fragment(block, "h1", <<>>)
      [] block.type = "h2" -> Fragment(block, "h2", <<>>)
      [] block.type = "h3" -> Fragment(block, "h3", <<>>)
      [] block.type \in {"paragraph", "introduction", "section", "list"} ->
            Fragment(block, "text-editor", <<>>)
      [] block.type = "image" ->
            Fragment(block, "img",
                     IF block.imageUrl # <<>> THEN block.imageUrl
                     ELSE <<PlaceholderUrl>>)
      [] block.type = "quote" -> Fragment(block, "blockquote", <<>>)
      [] OTHER -> Fragment(block, "text-editor", <<>>)

RECURSIVE WidgetsFrom(_, _)
WidgetsFrom(blocks, i) ==
    IF i > Len(blocks) THEN <<>>
    ELSE <<convertBlockToWidget(blocks[i])>> \o WidgetsFrom(blocks, i + 1)

\* wordpressService.js lines 909-944: the widgets in the order of the
\* blocks (the sections and columns they are put in are not kept)
convertToElementorJSON(blocks) ==
    WidgetsFrom(blocks, 1) \o <<Appended("related")>>

\* the Company document of the draft: missing, without wordpressConfig,
\* with a wordpressConfig that lacks a field, or complete
Companies == {"none", "noConfig", "incomplete", "complete"}

\* wordpressService.js lines 481-541: what getCompanyWordPressConfig throws
ConfigError(company) ==
    CASE company = "none" -> "Company not found"
      [] company = "noConfig" -> "WordPress configuration not found for company"
      [] company = "incomplete" -> "Incomplete WordPress configuration"
      [] OTHER -> ""

\* what the site does with the request: a status, or the code of the
\* error axios rejects with
TestOutcomes == {"200", "401"}

PostOutcomes ==
    {"201", "400", "401", "403", "404", "500",
     "ENOTFOUND", "ECONNREFUSED", "ETIMEDOUT", "ECONNRESET"}

\* wordpressService.js lines 806-873: testConnection(...).success
testConnection(company, tested) == ConfigError(company) = "" /\ tested = "200"

\* wordpressService.js lines 195-220 and 268-291: the message of the Error
\* createWordPressPost throws; a status of 500 or more makes axios reject
\* (validateStatus, line 188), and the rejection is wrapped at line 290
PostError(outcome) ==
    CASE outcome = "404" ->
            "WordPress REST API not found. Please check if the WordPress site URL is correct and REST API is enabled."
      [] outcome = "401" ->
            "WordPress authentication failed. Please check your username and application password."
      [] outcome = "403" ->
            "WordPress access forbidden. User may not have permission to create posts."
      [] outcome = "400" -> "WordPress API returned status: 400. Unknown error"
      [] outcome = "ENOTFOUND" ->
            "WordPress site not found. Please check the site URL: https://site"
      [] outcome = "ECONNREFUSED" ->
            "Cannot connect to WordPress site. Please check if the site is accessible: https://site"
      [] outcome = "ETIMEDOUT" ->
            "WordPress request timed out. The site may be slow or unreachable."
      [] outcome = "500" ->
            "WordPress deployment failed: Request failed with status code 500"
      [] outcome = "ECONNRESET" -> "WordPress deployment failed: socket hang up"
      [] OTHER -> ""

\* wordpressService.js lines 225-262: what createWordPressPost returns
Deployed ==
    [success |-> TRUE, postId |-> 1, wordpressId |-> 1,
     editUrl |-> "https://site/wp-admin/post.php?post=1&action=edit",
     previewUrl |-> "https://site/?p=1",
     message |-> "Successfully deployed to WordPress"]

\* wordpressService.js lines 122-130: the object the catch returns (the
\* timestamp is left out)
FailedWith(message) ==
    [success |-> FALSE, error |-> message,
     details |-> [originalError |-> message, companyId |-> "company"]]

\* blogRoutes.js lines 1735-1743
DraftData(d, kw) ==
    [title |-> SelectedMeta.h1,
     content |-> AssembledContent(d),
     contentBlocks |-> d.contentBlocks,
     metaTitle |-> SelectedMeta.metaTitle,
     metaDescription |-> SelectedMeta.metaDescription,
     focusKeyword |-> kw]

\* wordpressService.js lines 62-68: postData; contentBlocks is always an
\* array, so the content is convertContentBlocksToHTML's, and draftData has
\* no slug, so the slug is generateSEOSlug's
PostData(draftData) ==
    [title |-> draftData.title,
     content |-> convertContentBlocksToHTML(draftData.contentBlocks),
     status |-> "draft",
     slug |-> wordpressGenerateSEOSlug(draftData.focusKeyword),
     excerpt |-> draftData.metaDescription]

\* a deployToWordPress whose catch throws the error on
deployToWordPress_rethrows(draftData, company, outcome) ==
    IF ConfigError(company) # "" \/ outcome # "201"
    THEN [threw |-> TRUE, result |-> [success |-> FALSE], posted |-> <<>>]
    ELSE [threw |-> FALSE, result |-> Deployed, posted |-> <<PostData(draftData)>>]

\* wordpressService.js lines 30-132: everything runs inside the try, whose
\* catch returns FailedWith(error.message); a failing upload of the feature
\* image is swallowed (lines 141-156) and is not followed here
deployToWordPress(draftData, company, outcome) ==
    IF ConfigError(company) # ""
    THEN [threw |-> FALSE, result |-> FailedWith(ConfigError(company)),
          posted |-> <<>>]
    ELSE IF outcome # "201"
         THEN [threw |-> FALSE, result |-> FailedWith(PostError(outcome)),
               posted |-> <<PostData(draftData)>>]
         ELSE [threw |-> FALSE, result |-> Deployed,
               posted |-> <<PostData(draftData)>>]

\* a draft whose content has been generated from the fallback texts, for a
\* company of any configuration
PublishInit ==
    /\ keyword = <<"s", "o">>
    /\ companyName = WattMonk
    /\ apiKey = FALSE
    /\ targetWordCount = DefaultTargetWordCount
    /\ metaData = SelectedMeta
    /\ contentBlocks = <<>>
    /\ structure = NoStructure
    /\ structure2 = NoStructure
    /\ validation = NoResult
    /\ validation2 = NoResult
    /\ prevValidation = NoResult
    /\ spc = "idle"
    /\ ppc = "idle"
    /\ pc = "idle"
    /\ sectionIndex = 0
    /\ call = NoCall
    /\ callLog = <<>>
    /\ error = "none"
    /\ \E run \in GatewayRuns :
          draft = StoredDraft(generateSEOOptimizedContent(
                     keyword, metaData, companyName, targetWordCount, run))
    /\ reply = NoReply
    /\ requests = 0
    /\ slugs = NoSlugs
    /\ fallbackTexts = NoFallbacks
    /\ saving = NoSaving
    /\ deployment \in { [NoDeployment EXCEPT !.company = c] : c \in Companies }

\* what a run of deployToWordPress leaves behind
Deployment(run, outcome, assembled) ==
    [deployment EXCEPT !.called = TRUE, !.threw = run.threw,
                       !.result = run.result, !.posted = run.posted,
                       !.outcome = outcome, !.assembled = assembled,
                       !.images = draft.uploadedImages]

\* POST /deploy-wordpress, lines 1531-1792
DeployWordPress ==
    /\ requests < MaxRequests
    /\ \E draftId \in DraftIds, tested \in TestOutcomes, outcome \in PostOutcomes :
          IF draftId = "missing"
          THEN /\ reply' = Replied("deploy-wordpress", 404, <<>>, <<>>)
               /\ UNCHANGED <<draft, deployment>>
          ELSE IF deployment.company = "none"
          THEN \* line 1752: draft.blogId.companyId is null
               /\ reply' = Replied("deploy-wordpress", 500, <<>>, <<>>)
               /\ UNCHANGED <<draft, deployment>>
          ELSE IF ~testConnection(deployment.company, tested)
          THEN /\ reply' = Replied("deploy-wordpress", 400, <<>>, <<>>)
               /\ UNCHANGED <<draft, deployment>>
          ELSE LET run == deployToWordPress(DraftData(draft, keyword),
                                            deployment.company, outcome)
               IN /\ deployment' = Deployment(run, outcome, AssembledContent(draft))
                  /\ IF ~run.threw /\ run.result.success
                     THEN /\ draft' = [draft EXCEPT !.status = "ready_to_publish"]
                          /\ reply' = Replied("deploy-wordpress", 200, <<>>, <<>>)
                     ELSE /\ draft' = draft
                          /\ reply' = Replied("deploy-wordpress", 500, <<>>, <<>>)
    /\ requests' = requests + 1
    /\ UNCHANGED <<scorerVars, plannerVars, pipelineVars, slugs, fallbackTexts,
                   saving>>

\* wordpressService.js lines 797-799: createDraft, the entry of the service
\* for its other callers, which do not test the connection first
CreateDraft ==
    /\ requests < MaxRequests
    /\ \E outcome \in PostOutcomes :
          LET run == deployToWordPress(DraftData(draft, keyword),
                                       deployment.company, outcome)
          IN deployment' = Deployment(run, outcome, deployment.assembled)
    /\ requests' = requests + 1
    /\ UNCHANGED <<scorerVars, plannerVars, pipelineVars, slugs, fallbackTexts,
                   saving, draft, reply>>

\* wordpressService.js lines 1242-1258: generateElementorMetaData
GenerateElementorMetaData ==
    /\ requests < MaxRequests
    /\ deployment' =
          [deployment EXCEPT !.widgets = convertToElementorJSON(draft.contentBlocks),
                             !.widgetImages = draft.uploadedImages]
    /\ requests' = requests + 1
    /\ UNCHANGED <<scorerVars, plannerVars, pipelineVars, slugs, fallbackTexts,
                   saving, draft, reply>>

PublishNext ==
    \/ SaveDraft
    \/ DeployWordPress
    \/ CreateDraft
    \/ GenerateElementorMetaData

SpecPublish == PublishInit /\ [][PublishNext]_vars

-----------------------------------------------------------------------------
(* Properties of publishing                                                 *)

\* the content posted by the last deployment
PostedContent ==
    IF deployment.posted = <<>> THEN <<>> ELSE deployment.posted[1].content

\* a fragment that stems from an image block is an image reference, and an
\* image was uploaded for the block's id
ImageFragmentOK(f, uploadedImages) ==
    f.from = "image" =>
       /\ f.kind = "img"
       /\ f.src # <<>>
       /\ f.src # <<PlaceholderUrl>>
       /\ UploadedFor(uploadedImages, f.id) # {}

\* C19: in the rendered publish output (the content the route assembles,
\* the content posted, the Elementor widgets) an image block appears as an
\* image reference only if an image was uploaded for its block id, and
\* produces nothing otherwise: no comment, no placeholder address.
C19_ImageOnlyWhereUploaded ==
    /\ \A i \in DOMAIN deployment.assembled :
          ImageFragmentOK(deployment.assembled[i], deployment.images)
    /\ \A i \in DOMAIN PostedContent :
          ImageFragmentOK(PostedContent[i], deployment.images)
    /\ \A i \in DOMAIN deployment.widgets :
          ImageFragmentOK(deployment.widgets[i], deployment.widgetImages)

\* deployToWordPress has returned a failure
DeploymentFailed == deployment.called /\ ~deployment.result.success

\* the reasons the specification names
Reasons == {"auth", "not_found", "forbidden", "unknown"}

\* C20 as stated: when publishing fails, deployToWordPress does not throw
\* and returns success = false, an error message and a reason that is one
\* of auth, not_found, forbidden, unknown.
C20_FailureHasMessageAndReason ==
    /\ deployment.called => ~deployment.threw
    /\ DeploymentFailed =>
          /\ "error" \in DOMAIN deployment.result
          /\ "reason" \in DOMAIN deployment.result
          /\ deployment.result.reason \in Reasons

\* the reason a reader can take from the wording of the message
ReasonOf(message) ==
    CASE message = PostError("401") -> "auth"
      [] message = PostError("404") -> "not_found"
      [] message = PostError("403") -> "forbidden"
      [] OTHER -> "unknown"

\* the reason of what went wrong
ReasonFor(company, outcome) ==
    CASE ConfigError(company) # "" -> "unknown"
      [] outcome = "401" -> "auth"
      [] outcome = "404" -> "not_found"
      [] outcome = "403" -> "forbidden"
      [] OTHER -> "unknown"

\* C20 amended: when publishing fails, deployToWordPress does not throw and
\* returns exactly { success: false, error, details }, error being a
\* message that is not empty and details.originalError the same message;
\* there is no reason field, and the reason shows in the wording of the
\* message only (the messages for 401, 404 and 403 differ from each other
\* and from every other message).
C20_FailureHasMessageOnly ==
    /\ deployment.called => ~deployment.threw
    /\ DeploymentFailed =>
          /\ DOMAIN deployment.result = {"success", "error", "details"}
          /\ deployment.result.error # ""
          /\ deployment.result.details.originalError = deployment.result.error
          /\ ReasonOf(deployment.result.error)
                = ReasonFor(deployment.company, deployment.outcome)

\* the site has answered 401 to a company whose configuration is complete
C20_Witness ==
    /\ DeploymentFailed
    /\ deployment.company = "complete"
    /\ deployment.outcome = "401"
    /\ deployment.result.error = PostError("401")
    /\ reply.route = "deploy-wordpress"
    /\ reply.status = 500

-----------------------------------------------------------------------------
(* Missing configuration                                                    *)

\* the gateway calls that have returned so far
EndedCalls == SelectSeq(callLog, IsEnd)

-----------------------------------------------------------------------------
(* The scorer on well-formed output (seoOptimizationService.js 363-514,     *)
(* 780-880)                                                                 *)

\* "solar panel installation"
ScenarioKeyword == LowerSeq(SubSeq(ExampleKeyword, 1, Len(ExampleKeyword) - 1))

\* h1: the keyword alone (24 characters), followed by four more words (56
\* characters), followed by five more words (64 characters)
ScenarioTitles ==
    { <<R("kw", 1)>>, <<R("kw", 1), R("w", 4)>>, <<R("kw", 1), R("w", 5)>> }

\* meta description: 150 characters, the keyword at its start, in its
\* middle, at its end
ScenarioDescriptions ==
    { <<R("x", p), R("kw", 1), R("x", 63 - p)>> : p \in {0, 30, 63} }

\* the markup the checks 11 to 13 look for: a heading and an image alt text
\* that hold the keyword, two links
ScenarioMarkup == <<R("h2kw", 1), R("a", MinLinks), R("alt", 1)>>

\* a body of `words` words that holds the keyword `count` times, the first
\* time after `lead` words, with or without the markup
ScenarioBody(words, count, lead, markup) ==
    IF markup
    THEN <<R("x", lead)>> \o ScenarioMarkup \o <<R("kw", count - 2)>>
            \o <<R("x", words - lead - (2 * MinLinks + 6) - 3 * (count - 2))>>
    ELSE <<R("x", lead), R("kw", count), R("x", words - lead - 3 * count)>>

\* bodies of 1250 and 1500 words with a keyword density of 1.2% (15 and 18
\* occurrences), and one of 1000 words; the keyword first inside, across
\* the end of, or after the first 100 words
ScenarioBodies ==
    { ScenarioBody(words, (3 * words) \div 250, lead, markup) :
         words \in {1000, 1250, 1500}, lead \in {0, 97, 98, 200},
         markup \in BOOLEAN }

ScenarioInit ==
    /\ keyword = ScenarioKeyword
    /\ \E body \in ScenarioBodies :
          contentBlocks = << [type |-> "h2", content |-> <<R("kw", 1)>>],
                             [type |-> "paragraph", content |-> body] >>
    /\ metaData \in [h1 : ScenarioTitles, metaDescription : ScenarioDescriptions,
                     slug : {<<R("kwh", 1)>>}]
    /\ validation = NoResult
    /\ validation2 = NoResult
    /\ prevValidation = NoResult
    /\ spc = "input"
    /\ PlannerIdle
    /\ PipelineIdle
    /\ DraftIdle
    /\ ServiceIdle

SpecScenario == ScenarioInit /\ [][Validate]_vars

\* the output is well formed in the sense of the end-to-end scenario: the
\* keyword is in the h1, the meta description has 150 characters and holds
\* the keyword, the slug is "solar-panel-installation", the body has at
\* least 1102 words and a keyword density of 1.2%
WellFormedOutput ==
    /\ keyword = ScenarioKeyword
    /\ TextIncludesCI(metaData.h1, keyword)
    /\ TextLen(metaData.metaDescription, keyword) = 150
    /\ TextIncludesCI(metaData.metaDescription, keyword)
    /\ TextChars(metaData.slug, keyword) = ExampleSlug
    /\ Facts.wordCount >= MinWords
    /\ 1000 * Facts.keywordCount = 12 * Facts.wordCount

\* C22 as stated: on well-formed output for the keyword "solar panel
\* installation" the scorer's score is at least 85.
C22_WellFormedOutputScores85 ==
    (spc = "scored" /\ WellFormedOutput) => validation.score >= 85

\* the h1 has at most 60 characters
ShortTitle == TextLen(metaData.h1, keyword) <= MaxTitleLength

\* the keyword stands within the first 100 words of the body
EarlyKeyword == FirstWordsInclude(Facts.allContent, keyword, FirstWords)

\* the keyword stands within the first tenth of the body's characters
KeywordInFirstTenth ==
    PrefixIncludes(Facts.allContent, keyword,
                   TextLen(Facts.allContent, keyword) \div 10)

\* C22, amended: on well-formed output the score is at least 75; it is at
\* least 85 when in addition the h1 has at most 60 characters or the body
\* holds the keyword within its first 100 words (for the second revision of
\* the scorer: within the first tenth of its characters).
C22_WellFormedOutputScores75 ==
    (spc = "scored" /\ WellFormedOutput) =>
       /\ validation.score >= 75
       /\ validation2.score >= 75
       /\ (ShortTitle \/ EarlyKeyword) => validation.score >= 85
       /\ (ShortTitle \/ KeywordInFirstTenth) => validation2.score >= 85

\* a well-formed output with a short h1 and without markup, its keyword
\* cut by the end of the first 100 words, scored at exactly 85
C22_Witness ==
    /\ spc = "scored"
    /\ WellFormedOutput
    /\ ShortTitle
    /\ ~EarlyKeyword
    /\ FirstWordsInclude(Facts.allContent, keyword, FirstWords + 2)
    /\ validation.score = 85

-----------------------------------------------------------------------------
(* The planner's shares (seoOptimizationService.js 120-173, 660-701)        *)

\* the planned word counts, introduction first, conclusion last
PlannedWords(s) ==
    <<s.introduction.wordCount>>
       \o [i \in 1..Len(s.mainSections) |-> s.mainSections[i].wordCount]
       \o <<s.conclusion.wordCount>>

\* words is between lo% and hi% of target, half a word of rounding allowed
\* for each of the n rounded counts that words adds up
WithinShare(words, n, lo, hi, target) ==
    /\ 100 * words >= lo * target - 50 * n
    /\ 100 * words <= hi * target + 50 * n

\* all body sections have the same target
EqualBodyTargets(s) ==
    \A i, j \in 1..Len(s.mainSections) :
       s.mainSections[i].wordCount = s.mainSections[j].wordCount

BodyWords(s) == SectionWords(s.mainSections, Len(s.mainSections))

\* the shares the specification gives the sections
SharesAsSpecified(s) ==
    /\ WithinShare(s.introduction.wordCount, 1, 8, 10, targetWordCount)
    /\ EqualBodyTargets(s)
    /\ WithinShare(BodyWords(s), Len(s.mainSections), 72, 76, targetWordCount)
    /\ WithinShare(s.conclusion.wordCount, 1, 10, 12, targetWordCount)
    /\ targetWordCount = DefaultTargetWordCount =>
          PlannedWords(s) = <<200, 450, 450, 450, 450, 250>>

\* C23 as stated: the introduction gets 8-10% of totalWordCount, the body
\* sections equal targets that make 72-76% together, the conclusion 10-12%,
\* and 2500 words with 4 body sections are planned as 200, 450, 450, 450,
\* 450 and 250 words.
C23_SharesAsSpecified ==
    Planned => SharesAsSpecified(structure) /\ SharesAsSpecified(structure2)

\* C23, amended: the body sections get equal targets; the planner of lines
\* 120-173 gives the introduction 10%, each of the four body sections 20%
\* (80% together) and the conclusion 12%, and plans 2500 words as 250, 500,
\* 500, 500, 500 and 300; the planner of lines 660-701 gives 8%, 18% each
\* (72% together) and 10%, and plans 2500 words as 200, 450, 450, 450, 450
\* and 250.  Every count is rounded to a whole word.
C23_SharesOfTheTwoPlanners ==
    Planned =>
       /\ EqualBodyTargets(structure) /\ EqualBodyTargets(structure2)
       /\ Len(PlannedWords(structure)) = 6 /\ Len(PlannedWords(structure2)) = 6
       /\ WithinShare(structure.introduction.wordCount, 1, 10, 10, targetWordCount)
       /\ WithinShare(BodyWords(structure), 4, 80, 80, targetWordCount)
       /\ WithinShare(structure.conclusion.wordCount, 1, 12, 12, targetWordCount)
       /\ WithinShare(structure2.introduction.wordCount, 1, 8, 8, targetWordCount)
       /\ WithinShare(BodyWords(structure2), 4, 72, 72, targetWordCount)
       /\ WithinShare(structure2.conclusion.wordCount, 1, 10, 10, targetWordCount)
       /\ targetWordCount = DefaultTargetWordCount =>
             /\ PlannedWords(structure) = <<250, 500, 500, 500, 500, 300>>
             /\ PlannedWords(structure2) = <<200, 450, 450, 450, 450, 250>>

\* the plans of 2500 words: the first planner's body takes 2000 words, the
\* second planner's 1800
C23_Witness ==
    /\ Planned
    /\ targetWordCount = DefaultTargetWordCount
    /\ BodyWords(structure) = 2000
    /\ BodyWords(structure2) = 1800

-----------------------------------------------------------------------------
(* The number of blocks of a generated draft (blogRoutes.js 1120-1261)      *)

\* C25: content generation for a draft produces exactly 9 content blocks.
C25_NineContentBlocks ==
    JustAssembled => Len(draft.contentBlocks) = 9

-----------------------------------------------------------------------------
(* Workflow scenario: the requests that read a draft, move it through its   *)
(* workflow and attach images to it (blogRoutes.js)                         *)

\* res.json({ keywords, blocks, internalLinks, externalLinks }), lines
\* 387-394: the fields of the answer; the keywords of the company are
\* stood for by the draft's keyword
DraftResponse(d) ==
    [keywords |-> <<keyword>>, blocks |-> d.contentBlocks,
     internalLinks |-> <<>>, externalLinks |-> <<>>]

\* GET /draft/:draftId, lines 312-398
GetDraft ==
    /\ requests < MaxRequests
    /\ \E draftId \in DraftIds :
          reply' = IF draftId = "missing"
                   THEN Replied("draft", 404, <<>>, <<>>)
                   ELSE Replied("draft", 200, <<>>, DraftResponse(draft))
    /\ requests' = requests + 1
    /\ UNCHANGED <<scorerVars, plannerVars, pipelineVars, serviceVars, draft>>

\* POST /select-meta, lines 993-1019: the selection is stored and the status
\* is set to meta_selection whatever it was; a body without selectedMeta
\* throws at line 1003 and the catch answers 500
SelectMeta ==
    /\ requests < MaxRequests
    /\ \E draftId \in DraftIds, given \in BOOLEAN :
          IF draftId = "missing"
          THEN /\ reply' = Replied("select-meta", 404, <<>>, <<>>)
               /\ UNCHANGED <<draft, metaData>>
          ELSE IF ~given
          THEN /\ reply' = Replied("select-meta", 500, <<>>, <<>>)
               /\ UNCHANGED <<draft, metaData>>
          ELSE /\ reply' = Replied("select-meta", 200, <<>>, <<>>)
               /\ metaData' = SelectedMeta
               /\ draft' = [draft EXCEPT !.status = "meta_selection"]
    /\ requests' = requests + 1
    /\ UNCHANGED <<keyword, contentBlocks, validation, validation2,
                   prevValidation, spc>>
    /\ UNCHANGED <<plannerVars, pipelineVars, serviceVars>>

\* the address the first handler answers with: picsum.photos
PicsumUrl == <<"picsum">>

\* the block a request names: an image block of the draft, or no block id
ImageRequests ==
    { [blockId |-> draft.contentBlocks[i].id, prompt |-> p] :
         i \in ImageBlocks(draft.contentBlocks, "feature")
                  \cup ImageBlocks(draft.contentBlocks, "inline"),
         p \in BOOLEAN }

\* POST /generate-image.  The router holds two handlers for this method and
\* path (lines 1947 and 2009); express runs them in the order they were
\* registered, and the first one answers every request without calling
\* next(), so the block-specific handler of lines 2009-2089 never runs.
\* Lines 1947-1981: 400 without a prompt, otherwise { success: true,
\* imageUrl } with a picsum address; draftId and blockId are not read and
\* the draft is not touched.
GenerateImage ==
    /\ requests < MaxRequests
    /\ draft.contentBlocks # <<>>
    /\ \E draftId \in DraftIds, body \in ImageRequests :
          reply' = IF ~body.prompt
                   THEN Replied("generate-image", 400, body.blockId, <<>>)
                   ELSE Replied("generate-image", 200, body.blockId, PicsumUrl)
    /\ requests' = requests + 1
    /\ UNCHANGED <<scorerVars, plannerVars, pipelineVars, serviceVars, draft>>

\* one draft whose meta data has been selected, for a company whose
\* WordPress site is configured
WorkflowInit ==
    /\ keyword = <<"s", "o">>
    /\ companyName = WattMonk
    /\ apiKey \in BOOLEAN
    /\ targetWordCount = DefaultTargetWordCount
    /\ metaData = SelectedMeta
    /\ contentBlocks = <<>>
    /\ structure = NoStructure
    /\ structure2 = NoStructure
    /\ validation = NoResult
    /\ validation2 = NoResult
    /\ prevValidation = NoResult
    /\ spc = "idle"
    /\ ppc = "idle"
    /\ pc = "idle"
    /\ sectionIndex = 0
    /\ call = NoCall
    /\ callLog = <<>>
    /\ error = "none"
    /\ DraftIdle
    /\ ServiceIdle

WorkflowNext ==
    \/ GenerateStructuredContent
    \/ GetDraft
    \/ SelectMeta
    \/ GenerateImage
    \/ DeployWordPress

SpecWorkflow == WorkflowInit /\ [][WorkflowNext]_vars

-----------------------------------------------------------------------------
(* Properties of the workflow                                               *)

\* the draft was fetched after content had been generated for it
FetchedGeneratedDraft ==
    /\ reply.route = "draft"
    /\ reply.status = 200
    /\ draft.contentBlocks # <<>>

\* C26: after content has been generated for a draft, fetching the draft by
\* its id returns an SEO score (seoScore) of at least 80.
C26_FetchedDraftScoresAtLeast80 ==
    FetchedGeneratedDraft =>
       /\ "seoScore" \in DOMAIN reply.content
       /\ reply.content.seoScore >= 80

\* C28: once a draft has reached content_review or ready_to_publish, no
\* request sets its status back to meta_selection or keyword_selection.
C28_StatusNeverMovesBack ==
    [][draft.status \in {"content_review", "ready_to_publish"}
          => draft'.status \notin {"meta_selection", "keyword_selection"}]_vars

\* C30: when a POST /generate-image request that carries draftId, blockId
\* and prompt is answered with success, the address of the image is stored
\* in the draft under uploadedImages[blockId] and the block with that id is
\* marked as generated.
C30_GeneratedImageIsStoredForBlock ==
    (reply.route = "generate-image" /\ reply.status = 200) =>
       /\ \E p \in draft.uploadedImages : p[1] = reply.id
       /\ \E i \in DOMAIN draft.contentBlocks :
             /\ draft.contentBlocks[i].id = reply.id
             /\ draft.contentBlocks[i].generated
             /\ draft.contentBlocks[i].imageUrl = reply.content


-----------------------------------------------------------------------------
(* A save and image generations for one draft, interleaved                  *)

\* one generated draft, no request started
ConcurrentInit ==
    PublishInit /\ deployment = NoDeployment

\* PUT /draft/:draftId/save, lines 1459-1477: the handler reads the request
\* and awaits Draft.findById(draftId); other requests are served before it
\* resumes with the document it found
SaveFind ==
    /\ saving.at = "idle"
    /\ \E draftId \in DraftIds, body \in SavedBlocks, uploadedImages \in SavedImages :
          saving' = IF draftId = "missing"
                    THEN [NoSaving EXCEPT !.at = "done", !.status = 404]
                    ELSE [at |-> "found", given |-> body.given,
                          blocks |-> body.blocks, images |-> uploadedImages,
                          found |-> draft, status |-> 0]
    /\ UNCHANGED <<scorerVars, plannerVars, pipelineVars, draftVars,
                   slugs, fallbackTexts, deployment>>

\* lines 1479-1518: updatedContent is merged from the document that was
\* found, and Draft.findByIdAndUpdate replaces generatedContent by it
SaveUpdate ==
    /\ saving.at = "found"
    /\ draft' = [draft EXCEPT
                   !.contentBlocks =
                      IF saving.given THEN saving.blocks
                                      ELSE saving.found.contentBlocks,
                   !.uploadedImages =
                      MergeImages(saving.found.uploadedImages, saving.images),
                   !.seoValidation = <<>>,
                   !.blogContent = <<>>]
    /\ saving' = [saving EXCEPT !.at = "done", !.status = 200]
    /\ UNCHANGED <<scorerVars, plannerVars, pipelineVars, reply, requests,
                   slugs, fallbackTexts, deployment>>

ConcurrentNext == SaveFind \/ GenerateImage \/ SaveUpdate

SpecConcurrent == ConcurrentInit /\ [][ConcurrentNext]_vars

\* the save and an image generation have both reported success
BothSucceeded ==
    /\ saving.at = "done" /\ saving.status = 200
    /\ reply.route = "generate-image" /\ reply.status = 200

\* the stored draft holds the blocks the save request carried
SavedBlocksStored ==
    saving.given =>
       /\ Len(draft.contentBlocks) = Len(saving.blocks)
       /\ \A i \in DOMAIN saving.blocks :
             /\ draft.contentBlocks[i].id = saving.blocks[i].id
             /\ draft.contentBlocks[i].content = saving.blocks[i].content

\* C27: when a save of a draft and an image generation for block B of the
\* same draft overlap and both report success, the stored draft holds the
\* saved content blocks and, under uploadedImages[B], the address of the
\* generated image.
C27_SaveAndImageBothKept ==
    BothSucceeded =>
       /\ SavedBlocksStored
       /\ <<reply.id, reply.content[1]>> \in draft.uploadedImages


-----------------------------------------------------------------------------
(* Where the assembler's paragraphs are stored (blogRoutes.js 1158-1240)    *)

\* how often each text occurs as the content of the blocks at positions
FoundTexts(blocks, positions) ==
    [c \in {blocks[i].content : i \in positions} |->
        Cardinality({i \in positions : blocks[i].content = c})]

\* the paragraphs the assembler pushed with ids of one prefix
\* (seoOptimizationService.js lines 222, 291 and 351: intro-, section-,
\* conclusion-) are the contents of the draft's blocks of one type, each as
\* often as the assembler produced it
StoredInBlocksOfType(seoBlocks, prefix, blocks, type) ==
    FoundTexts(seoBlocks, {i \in DOMAIN seoBlocks :
                              /\ seoBlocks[i].type = "paragraph"
                              /\ seoBlocks[i].id[1] = prefix})
       = FoundTexts(blocks, {i \in DOMAIN blocks : blocks[i].type = type})

\* the results of the service from which the stored block list was assembled
ResultsStored ==
    { res \in { generateSEOOptimizedContent(keyword, metaData, companyName,
                                            targetWordCount, run) :
                   run \in GatewayRuns } :
         ~res.threw /\ draft.contentBlocks = RouteContentBlocks(res) }

\* C29: every paragraph the assembler produced is stored in the draft
\* exactly once, in a block whose type matches its role: the introduction
\* text in the introduction block, each body text in one section block, and
\* the generated conclusion text in the conclusion block.
C29_ParagraphsStoredOnceByRole ==
    JustAssembled =>
       \A res \in ResultsStored :
          /\ StoredInBlocksOfType(res.contentBlocks, "intro",
                                  draft.contentBlocks, "introduction")
          /\ StoredInBlocksOfType(res.contentBlocks, "section",
                                  draft.contentBlocks, "section")
          /\ StoredInBlocksOfType(res.contentBlocks, "conclusion",
                                  draft.contentBlocks, "conclusion")

=============================================================================
